---- MODULE Spec2Model ----
(***************************************************************************)
(* Model of github-schema-go: the Schema query layer (Query, runQuery,     *)
(* Type, Search, Mutation) and the predefined jq queries of                *)
(* schema/queries.go, evaluated over JSON documents.                       *)
(*                                                                         *)
(* JSON values are tagged records; a jq expression is modelled by the      *)
(* stream (sequence) of values it produces, an error signal ending it.     *)
(***************************************************************************)
EXTENDS Integers, Sequences, FiniteSets, TLC

VARIABLES data, op, arg, ret, err, ran, calls, schemas, files, written

vars == <<data, op, arg, ret, err, ran, calls, schemas, files, written>>

(***************************************************************************)
(* Bounds of the model.                                                    *)
(***************************************************************************)
\* longest type list of a document
MaxTypes == 3
\* deepest NON_NULL/LIST wrapping of a type reference given to formatType
MaxDepth == 3
\* longest sequence an ad-hoc expression produces
MaxOut == 3
\* goroutines that call into one Schema at the same time
MaxCalls == 2
\* Schemas constructed side by side
MaxSchemas == 2

(***************************************************************************)
(* JSON values (Go interface{} after unmarshalling).  Go's nil interface   *)
(* is the decoding of JSON null, so both are the one value Null.           *)
(***************************************************************************)
Null == [t |-> "null"]
Bool(b) == [t |-> "boolean", b |-> b]
Num(n) == [t |-> "number", n |-> n]
Str(s) == [t |-> "string", s |-> s]
Arr(a) == [t |-> "array", a |-> a]
Obj(o) == [t |-> "object", o |-> o]
\* an error value produced by the jq engine's iterator
Err(m) == [t |-> "error", e |-> m]

IsErr(v) == v.t = "error"

\* the first error of a sequence of values, or Null when there is none
FirstErr(s) ==
  IF \E i \in 1..Len(s) : IsErr(s[i])
  THEN s[CHOOSE i \in 1..Len(s) : IsErr(s[i]) /\ \A j \in 1..(i-1) : ~IsErr(s[j])]
  ELSE Null

\* a stream stops at its first error
CutAtErr(s) ==
  IF \E i \in 1..Len(s) : IsErr(s[i])
  THEN SubSeq(s, 1, CHOOSE i \in 1..Len(s) : IsErr(s[i]) /\ \A j \in 1..(i-1) : ~IsErr(s[j]))
  ELSE s

RECURSIVE Flatten(_)
Flatten(ss) == IF Len(ss) = 0 THEN <<>> ELSE Head(ss) \o Flatten(Tail(ss))

(***************************************************************************)
(* jq primitives, as gojq evaluates them.                                  *)
(***************************************************************************)
\* .k
Field(v, k) ==
  CASE v.t = "object" -> IF k \in DOMAIN v.o THEN v.o[k] ELSE Null
    [] v.t = "null"   -> Null
    [] v.t = "error"  -> v
    [] OTHER          -> Err("expected an object")

\* .[i], zero-based
Index(v, i) ==
  CASE v.t = "array" -> IF i + 1 \in 1..Len(v.a) THEN v.a[i + 1] ELSE Null
    [] v.t = "null"  -> Null
    [] v.t = "error" -> v
    [] OTHER         -> Err("expected an array")

\* .[] over the lists and nulls a document carries
Iterate(v) ==
  CASE v.t = "array" -> v.a
    [] v.t = "error" -> <<v>>
    [] v.t \in {"null", "string", "number", "boolean"} -> <<Err("cannot iterate over")>>

\* jq truthiness: everything but null and false
Truthy(v) == ~(v.t = "null" \/ (v.t = "boolean" /\ v.b = FALSE))

\* a // b, for a single-valued a: errors of a are suppressed
Alt(a, b) == IF ~IsErr(a) /\ Truthy(a) THEN a ELSE b

\* a + b
Add(a, b) ==
  CASE IsErr(a) -> a
    [] IsErr(b) -> b
    [] a.t = "null" -> b
    [] b.t = "null" -> a
    [] a.t = "string" /\ b.t = "string" -> Str(a.s \o b.s)
    [] a.t = "number" /\ b.t = "number" -> Num(a.n + b.n)
    [] a.t = "array" /\ b.t = "array" -> Arr(a.a \o b.a)
    [] OTHER -> Err("cannot be added")

\* a == b
Eq(a, b) ==
  CASE IsErr(a) -> a
    [] IsErr(b) -> b
    [] OTHER -> Bool(a = b)

\* length
Length(v) ==
  CASE v.t = "null" -> Num(0)
    [] v.t = "string" -> Num(Len(v.s))
    [] v.t = "array" -> Num(Len(v.a))
    [] v.t = "object" -> Num(Cardinality(DOMAIN v.o))
    [] v.t = "number" -> Num(IF v.n < 0 THEN -v.n ELSE v.n)
    [] v.t = "error" -> v
    [] OTHER -> Err("has no length")

\* .[0:n]
Slice0(v, n) ==
  CASE v.t = "string" -> Str(SubSeq(v.s, 1, IF Len(v.s) < n THEN Len(v.s) ELSE n))
    [] v.t = "array" -> Arr(SubSeq(v.a, 1, IF Len(v.a) < n THEN Len(v.a) ELSE n))
    [] v.t = "null" -> Null
    [] v.t = "error" -> v
    [] OTHER -> Err("cannot be sliced")

\* {k: v, ...}: an error in any member is the error of the construction
MkObj(o) ==
  IF \E k \in DOMAIN o : IsErr(o[k])
  THEN o[CHOOSE k \in DOMAIN o : IsErr(o[k])]
  ELSE Obj(o)

\* [ stream ]: an error in the stream is the error of the construction
MkArr(s) == IF FirstErr(s) # Null THEN FirstErr(s) ELSE Arr(s)

(***************************************************************************)
(* formatType of typeQuery.                                                *)
(***************************************************************************)
\* formatType without the recursion: one wrapper is unwrapped and no more
formatTypeShallow(v) ==
  IF v.t = "object" /\ Eq(Field(v, "kind"), Str("NON_NULL")) = Bool(TRUE)
  THEN Add(Field(Field(v, "ofType"), "name"), Str("!"))
  ELSE IF v.t = "object" /\ Eq(Field(v, "kind"), Str("LIST")) = Bool(TRUE)
  THEN Add(Add(Str("["), Alt(Field(Field(v, "ofType"), "name"),
                               Field(Field(v, "ofType"), "kind"))), Str("]"))
  ELSE IF v.t = "object"
  THEN Alt(Field(v, "name"), Field(v, "kind"))
  ELSE v

\* formatType whose terminal case has no fallback to kind
RECURSIVE formatTypeNameOnly(_)
formatTypeNameOnly(v) ==
  IF v.t = "object" /\ Eq(Field(v, "kind"), Str("NON_NULL")) = Bool(TRUE)
  THEN Add(formatTypeNameOnly(Field(v, "ofType")), Str("!"))
  ELSE IF v.t = "object" /\ Eq(Field(v, "kind"), Str("LIST")) = Bool(TRUE)
  THEN Add(Add(Str("["), formatTypeNameOnly(Field(v, "ofType"))), Str("]"))
  ELSE Field(v, "name")

RECURSIVE formatType(_)
formatType(v) ==
  IF v.t = "object" /\ Eq(Field(v, "kind"), Str("NON_NULL")) = Bool(TRUE)
  THEN Add(formatType(Field(v, "ofType")), Str("!"))
  ELSE IF v.t = "object" /\ Eq(Field(v, "kind"), Str("LIST")) = Bool(TRUE)
  THEN Add(Add(Str("["), formatType(Field(v, "ofType"))), Str("]"))
  ELSE IF v.t = "object"
  THEN Alt(Field(v, "name"), Field(v, "kind"))
  ELSE v

\* .data.__schema.types[]
schemaTypes(d) == Iterate(Field(Field(Field(d, "data"), "__schema"), "types"))

\* [ .xs[] | f ] for the member-wise image m of the stream s
MapArr(s, m) == MkArr(CutAtErr([i \in 1..Len(s) |-> m[i]]))

(***************************************************************************)
(* typeQuery: .data.__schema.types[] | select(.name == $type) | {type: ..} *)
(***************************************************************************)
typeArgument(a) ==
  MkObj([name |-> Field(a, "name"),
         description |-> Field(a, "description"),
         type |-> formatType(Field(a, "type"))])

\* arguments that are an empty list, not null, for a field without args
typeArgumentsNeverNull(f) ==
  LET n == Length(Field(f, "args"))
      as == Iterate(Field(f, "args"))
  IN  IF IsErr(n) THEN n
      ELSE IF n.n >= 0 THEN MapArr(as, [i \in 1..Len(as) |-> typeArgument(as[i])])
      ELSE Null

typeArguments(f) ==
  LET n == Length(Field(f, "args"))
      as == Iterate(Field(f, "args"))
  IN  IF IsErr(n) THEN n
      ELSE IF n.n > 0 THEN MapArr(as, [i \in 1..Len(as) |-> typeArgument(as[i])])
      ELSE Null

typeField(f) ==
  MkObj([name |-> Field(f, "name"),
         description |-> Field(f, "description"),
         type |-> formatType(Field(f, "type")),
         arguments |-> typeArguments(f)])

typeFields(t) ==
  LET fs == Iterate(Field(t, "fields"))
  IN  IF Truthy(Field(t, "fields"))
      THEN MapArr(fs, [i \in 1..Len(fs) |-> typeField(fs[i])])
      ELSE Null

typeInputField(f) ==
  MkObj([name |-> Field(f, "name"),
         description |-> Field(f, "description"),
         type |-> formatType(Field(f, "type")),
         required |-> Eq(Field(Field(f, "type"), "kind"), Str("NON_NULL"))])

typeInputFields(t) ==
  LET fs == Iterate(Field(t, "inputFields"))
  IN  IF Truthy(Field(t, "inputFields"))
      THEN MapArr(fs, [i \in 1..Len(fs) |-> typeInputField(fs[i])])
      ELSE Null

typeEnumValue(e) ==
  MkObj([name |-> Field(e, "name"), description |-> Field(e, "description")])

\* enumValues decided by the fields property
typeEnumValuesByFields(t) ==
  LET es == Iterate(Field(t, "enumValues"))
  IN  IF Truthy(Field(t, "fields"))
      THEN MapArr(es, [i \in 1..Len(es) |-> typeEnumValue(es[i])])
      ELSE Null

typeEnumValues(t) ==
  LET es == Iterate(Field(t, "enumValues"))
  IN  IF Truthy(Field(t, "enumValues"))
      THEN MapArr(es, [i \in 1..Len(es) |-> typeEnumValue(es[i])])
      ELSE Null

typeObject(t) ==
  MkObj([type |->
    MkObj([name |-> Field(t, "name"),
           kind |-> Field(t, "kind"),
           description |-> Field(t, "description"),
           fields |-> typeFields(t),
           inputFields |-> typeInputFields(t),
           enumValues |-> typeEnumValues(t)])])

\* select(.name == $type) | {type: ...}, for one member t of the type list
typeSelect(t, type) ==
  LET c == Eq(Field(t, "name"), type)
  IN  IF IsErr(c) THEN <<c>>
      ELSE IF c = Bool(TRUE) THEN <<typeObject(t)>>
      ELSE <<>>

typeQuery(d, type) ==
  LET ts == schemaTypes(d)
  IN  CutAtErr(Flatten([i \in 1..Len(ts) |-> typeSelect(ts[i], type)]))

(***************************************************************************)
(* test($pattern; "i").  Regular expressions are modelled on the subset    *)
(* the calls of this model use: literal letters, an optional leading "^",  *)
(* an optional trailing "$"; a pattern holding "(" (an unclosed group)     *)
(* does not compile.                                                       *)
(***************************************************************************)
UpperLetters == "ABCDEFGHIJKLMNOPQRSTUVWXYZ"
LowerLetters == "abcdefghijklmnopqrstuvwxyz"

ToLower(c) ==
  IF \E i \in 1..Len(UpperLetters) : SubSeq(UpperLetters, i, i) = c
  THEN LET i == CHOOSE i \in 1..Len(UpperLetters) : SubSeq(UpperLetters, i, i) = c
       IN  SubSeq(LowerLetters, i, i)
  ELSE c

RECURSIVE FoldCase(_)
FoldCase(s) ==
  IF Len(s) = 0 THEN s
  ELSE ToLower(SubSeq(s, 1, 1)) \o FoldCase(SubSeq(s, 2, Len(s)))

RegexValid(re) == \A i \in 1..Len(re) : SubSeq(re, i, i) # "("

RegexFromStart(re) == Len(re) > 0 /\ SubSeq(re, 1, 1) = "^"
RegexToEnd(re) == Len(re) > 0 /\ SubSeq(re, Len(re), Len(re)) = "$"

\* the literal between the anchors
RegexLiteral(re) ==
  SubSeq(re, IF RegexFromStart(re) THEN 2 ELSE 1,
             IF RegexToEnd(re) THEN Len(re) - 1 ELSE Len(re))

\* does s hold a match of re; fold is the "i" flag
RegexMatch(s, re, fold) ==
  LET subject == IF fold THEN FoldCase(s) ELSE s
      lit == IF fold THEN FoldCase(RegexLiteral(re)) ELSE RegexLiteral(re)
  IN  \E i \in 1..(Len(subject) + 1) :
        /\ i + Len(lit) - 1 <= Len(subject)
        /\ SubSeq(subject, i, i + Len(lit) - 1) = lit
        /\ RegexFromStart(re) => i = 1
        /\ RegexToEnd(re) => i + Len(lit) - 1 = Len(subject)

\* test(re; flags) applied to v
test(v, re, flags) ==
  CASE IsErr(v) -> v
    [] v.t # "string" -> Err("cannot be matched, as it is not a string")
    [] re.t # "string" -> Err("regex must be a string")
    [] ~RegexValid(re.s) -> Err("invalid regular expression")
    [] OTHER -> Bool(RegexMatch(v.s, re.s, flags = "i"))

(***************************************************************************)
(* searchQuery                                                             *)
(***************************************************************************)
\* the 100 of "(.description | length) > 100"
searchDescriptionLimit == 100
\* the 100 of ".description[0:100]"
searchDescriptionKept == 100

\* a description of exactly the limit is cut too
searchDescriptionAtLimit(t) ==
  LET dsc == Field(t, "description")
      n == Length(dsc)
  IN  IF dsc = Null THEN dsc
      ELSE IF IsErr(n) THEN n
      ELSE IF n.n >= searchDescriptionLimit
      THEN Add(Slice0(dsc, searchDescriptionKept), Str("..."))
      ELSE dsc

searchDescription(t) ==
  LET dsc == Field(t, "description")
      n == Length(dsc)
  IN  IF dsc = Null THEN dsc
      ELSE IF IsErr(n) THEN n
      ELSE IF n.n > searchDescriptionLimit
      THEN Add(Slice0(dsc, searchDescriptionKept), Str("..."))
      ELSE dsc

searchEntry(t) ==
  MkObj([name |-> Field(t, "name"),
         kind |-> Field(t, "kind"),
         description |-> searchDescription(t)])

\* the selection without the "i" flag
searchSelectCaseSensitive(t, pattern) ==
  LET m == test(Field(t, "name"), pattern, "")
  IN  IF IsErr(m) THEN <<m>>
      ELSE IF m = Bool(TRUE) THEN <<searchEntry(t)>>
      ELSE <<>>

\* select(.name | test($pattern; "i")) | {...}, for one member t of the type list
searchSelect(t, pattern) ==
  LET m == test(Field(t, "name"), pattern, "i")
  IN  IF IsErr(m) THEN <<m>>
      ELSE IF m = Bool(TRUE) THEN <<searchEntry(t)>>
      ELSE <<>>

\* a summary that is produced only for a list that has members
searchSummaryOfMatches(rs, pattern) ==
  IF IsErr(rs) THEN <<rs>>
  ELSE IF Length(rs) = Num(0) THEN <<>>
  ELSE <<Obj([count |-> Length(rs), pattern |-> pattern, results |-> rs])>>

\* [...] | {count: length, pattern: $pattern, results: .}, for the list rs
searchSummary(rs, pattern) ==
  IF IsErr(rs) THEN <<rs>>
  ELSE <<Obj([count |-> Length(rs), pattern |-> pattern, results |-> rs])>>

searchQuery(d, pattern) ==
  LET ts == schemaTypes(d)
  IN  searchSummary(
        MkArr(CutAtErr(Flatten([i \in 1..Len(ts) |-> searchSelect(ts[i], pattern)]))),
        pattern)

(***************************************************************************)
(* mutationQuery                                                           *)
(***************************************************************************)
RECURSIVE mutationFormatType(_)
mutationFormatType(v) ==
  IF v.t = "object" /\ Eq(Field(v, "kind"), Str("NON_NULL")) = Bool(TRUE)
  THEN Add(mutationFormatType(Field(v, "ofType")), Str("!"))
  ELSE IF v.t = "object" /\ Eq(Field(v, "kind"), Str("LIST")) = Bool(TRUE)
  THEN Add(Add(Str("["), mutationFormatType(Field(v, "ofType"))), Str("]"))
  ELSE IF v.t = "object"
  THEN Alt(Field(v, "name"), Field(v, "kind"))
  ELSE v

\* if c then a else b end
IfThenElse(c, a, b) == IF IsErr(c) THEN c ELSE IF Truthy(c) THEN a ELSE b

\* join(sep) over a list of strings and nulls
RECURSIVE JoinSeq(_, _)
JoinSeq(s, sep) ==
  IF Len(s) = 0 THEN ""
  ELSE LET h == IF Head(s).t = "string" THEN Head(s).s ELSE ""
       IN  IF Len(s) = 1 THEN h ELSE h \o sep \o JoinSeq(Tail(s), sep)

Join(v, sep) ==
  CASE IsErr(v) -> v
    [] v.t = "array" /\ \A i \in 1..Len(v.a) : v.a[i].t \in {"string", "null"}
         -> Str(JoinSeq(v.a, sep))
    [] OTHER -> Err("cannot be joined")

\* the fields of Mutation without the selection by name
mutationSelectEveryField(t, mutation) ==
  LET c == Eq(Field(t, "name"), Str("Mutation"))
  IN  IF IsErr(c) THEN <<c>>
      ELSE IF c = Bool(TRUE) THEN Iterate(Field(t, "fields"))
      ELSE <<>>

\* select(.name == "Mutation").fields[] | select(.name == $mutation), for one
\* member t of the type list
mutationSelect(t, mutation) ==
  LET c == Eq(Field(t, "name"), Str("Mutation"))
      fs == Iterate(Field(t, "fields"))
      pick(f) == LET e == Eq(Field(f, "name"), mutation)
                 IN  IF IsErr(e) THEN <<e>>
                     ELSE IF e = Bool(TRUE) THEN <<f>>
                     ELSE <<>>
  IN  IF IsErr(c) THEN <<c>>
      ELSE IF c = Bool(TRUE) THEN CutAtErr(Flatten([i \in 1..Len(fs) |-> pick(fs[i])]))
      ELSE <<>>

\* the values bound to $mut, in order
mutationFind(d, mutation) ==
  LET ts == schemaTypes(d)
  IN  CutAtErr(Flatten([i \in 1..Len(ts) |-> mutationSelect(ts[i], mutation)]))

\* the name at the root of the first argument's type: $mut.args[0].type.name
mutationInputTypeNameOfRoot(mut) ==
  Alt(Field(Field(Index(Field(mut, "args"), 0), "type"), "name"),
      Field(Field(Field(Index(Field(mut, "args"), 0), "type"), "ofType"), "name"))

\* $mut.args[0].type.ofType.name
mutationInputTypeName(mut) ==
  Field(Field(Field(Index(Field(mut, "args"), 0), "type"), "ofType"), "name")

\* a bullet line that marks every input field as required
mutationBulletAlwaysRequired(f) ==
  Add(Add(Add(Add(Add(Str("- "), Field(f, "name")), Str(": ")),
                  mutationFormatType(Field(f, "type"))),
          Str(" (required)")),
      IfThenElse(Field(f, "description"),
                 Add(Str("\n  "), Field(f, "description")), Str("")))

\* one bullet line of the synthesized description
mutationBullet(f) ==
  Add(Add(Add(Add(Add(Str("- "), Field(f, "name")), Str(": ")),
                  mutationFormatType(Field(f, "type"))),
          IfThenElse(Eq(Field(Field(f, "type"), "kind"), Str("NON_NULL")),
                     Str(" (required)"), Str(""))),
      IfThenElse(Field(f, "description"),
                 Add(Str("\n  "), Field(f, "description")), Str("")))

\* the then-branch object, for one value of $inputType
mutationExpanded(mut, inputType) ==
  LET a0 == Index(Field(mut, "args"), 0)
      fs == Iterate(Field(inputType, "inputFields"))
      bullets == MapArr(fs, [i \in 1..Len(fs) |-> mutationBullet(fs[i])])
  IN  MkObj([mutation |->
        MkObj([name |-> Field(mut, "name"),
               description |-> Field(mut, "description"),
               inputs |-> MkArr(<<
                 MkObj([name |-> Field(a0, "name"),
                        type |-> mutationFormatType(Field(a0, "type")),
                        description |->
                          Add(Add(Add(Add(Field(a0, "description"),
                                          Str("\n\nInput object '")),
                                      Field(inputType, "name")),
                                  Str("' has the following fields:\n")),
                              Join(bullets, "\n")),
                        required |-> Eq(Field(Field(a0, "type"), "kind"),
                                        Str("NON_NULL"))])>>)])])

\* required decided one layer below the root
mutationArgumentInnerRequired(a) ==
  MkObj([name |-> Field(a, "name"),
         type |-> mutationFormatType(Field(a, "type")),
         description |-> Field(a, "description"),
         required |-> Eq(Field(Field(Field(a, "type"), "ofType"), "kind"),
                         Str("NON_NULL"))])

\* one member of the else-branch inputs
mutationArgument(a) ==
  MkObj([name |-> Field(a, "name"),
         type |-> mutationFormatType(Field(a, "type")),
         description |-> Field(a, "description"),
         required |-> Eq(Field(Field(a, "type"), "kind"), Str("NON_NULL"))])

\* the else-branch object
mutationPlain(mut) ==
  LET as == Iterate(Field(mut, "args"))
  IN  MkObj([mutation |->
        MkObj([name |-> Field(mut, "name"),
               description |-> Field(mut, "description"),
               inputs |-> MapArr(as, [i \in 1..Len(as) |-> mutationArgument(as[i])])])])

\* (.data.__schema.types[] | select(.name == n)) as $inputType | {...}
mutationInputSelect(t, mut, n) ==
  LET c == Eq(Field(t, "name"), n)
  IN  IF IsErr(c) THEN <<c>>
      ELSE IF c = Bool(TRUE) THEN <<mutationExpanded(mut, t)>>
      ELSE <<>>

\* if $mut.args[0].type.ofType.name then ... else ... end, for one $mut
mutationBody(d, mut) ==
  LET n == mutationInputTypeName(mut)
      ts == schemaTypes(d)
  IN  IF IsErr(n) THEN <<n>>
      ELSE IF Truthy(n)
      THEN CutAtErr(Flatten([i \in 1..Len(ts) |-> mutationInputSelect(ts[i], mut, n)]))
      ELSE <<mutationPlain(mut)>>

mutationQuery(d, mutation) ==
  LET ms == mutationFind(d, mutation)
  IN  CutAtErr(Flatten([i \in 1..Len(ms) |->
                 IF IsErr(ms[i]) THEN <<ms[i]>> ELSE mutationBody(d, ms[i])]))

(***************************************************************************)
(* fieldSearchQuery                                                        *)
(***************************************************************************)
\* .xs[]? : the members of a list, nothing where .xs[] would fail
IterateOpt(v) == IF v.t = "array" THEN v.a ELSE <<>>

\* the type text of a matched field: one wrapper is looked through
fieldSearchType(f) ==
  IfThenElse(Eq(Field(Field(f, "type"), "kind"), Str("NON_NULL")),
    Add(Field(Field(Field(f, "type"), "ofType"), "name"), Str("!")),
    IfThenElse(Eq(Field(Field(f, "type"), "kind"), Str("LIST")),
      Add(Add(Str("["), Alt(Field(Field(Field(f, "type"), "ofType"), "name"),
                            Field(Field(Field(f, "type"), "ofType"), "kind"))),
          Str("]")),
      Field(Field(f, "type"), "name")))

fieldSearchEntry(f) ==
  MkObj([name |-> Field(f, "name"),
         type |-> fieldSearchType(f),
         description |-> Field(f, "description")])

\* select(.name | test($pattern; "i")) | {...}, for one field f
fieldSearchSelect(f, pattern) ==
  LET m == test(Field(f, "name"), pattern, "i")
  IN  IF IsErr(m) THEN <<m>>
      ELSE IF m = Bool(TRUE) THEN <<fieldSearchEntry(f)>>
      ELSE <<>>

\* {type: .name, kind: .kind, fields: [...]}, for one member t of the type list
fieldSearchGroup(t, pattern) ==
  LET fs == IterateOpt(Field(t, "fields"))
  IN  MkObj([type |-> Field(t, "name"),
             kind |-> Field(t, "kind"),
             fields |-> MkArr(CutAtErr(Flatten(
                          [i \in 1..Len(fs) |-> fieldSearchSelect(fs[i], pattern)])))])

\* a selection that keeps every group
fieldSearchKeepAll(g) == <<g>>

\* select(.fields | length > 0), for one group g
fieldSearchKeep(g) ==
  IF IsErr(g) THEN <<g>>
  ELSE IF Length(Field(g, "fields")).n > 0 THEN <<g>>
  ELSE <<>>

fieldSearchQuery(d, pattern) ==
  LET ts == schemaTypes(d)
  IN  <<MkArr(CutAtErr(Flatten(
          [i \in 1..Len(ts) |->
             IF IsErr(ts[i]) THEN <<ts[i]>>
             ELSE fieldSearchKeep(fieldSearchGroup(ts[i], pattern))])))>>

(***************************************************************************)
(* interfaceImplementersQuery                                              *)
(***************************************************************************)
\* implementers left null for a type without possibleTypes
interfaceImplementersNullWithout(t) ==
  IF Truthy(Field(t, "possibleTypes"))
  THEN MkObj([interface |-> Field(t, "name"),
              implementers |->
                MapArr(Iterate(Field(t, "possibleTypes")),
                       [i \in 1..Len(Iterate(Field(t, "possibleTypes"))) |->
                          Field(Iterate(Field(t, "possibleTypes"))[i], "name")])])
  ELSE MkObj([interface |-> Field(t, "name"), implementers |-> Null])

\* if .possibleTypes then {...} else {...} end, for one selected type t
interfaceImplementers(t) ==
  IF Truthy(Field(t, "possibleTypes"))
  THEN MkObj([interface |-> Field(t, "name"),
              implementers |->
                MapArr(Iterate(Field(t, "possibleTypes")),
                       [i \in 1..Len(Iterate(Field(t, "possibleTypes"))) |->
                          Field(Iterate(Field(t, "possibleTypes"))[i], "name")])])
  ELSE MkObj([interface |-> Field(t, "name"), implementers |-> Arr(<<>>)])

\* select(.name == $interface) | if ..., for one member t of the type list
interfaceImplementersSelect(t, interface) ==
  LET c == Eq(Field(t, "name"), interface)
  IN  IF IsErr(c) THEN <<c>>
      ELSE IF c = Bool(TRUE) THEN <<interfaceImplementers(t)>>
      ELSE <<>>

interfaceImplementersQuery(d, interface) ==
  LET ts == schemaTypes(d)
  IN  CutAtErr(Flatten([i \in 1..Len(ts) |-> interfaceImplementersSelect(ts[i], interface)]))

(***************************************************************************)
(* Expressions.  A jq expression text is modelled by what the engine makes *)
(* of it: whether it parses, the variables it references, and the stream   *)
(* it produces.  The predefined queries produce the streams defined above; *)
(* an ad-hoc expression produces the stream "out"; "$x" produces the value *)
(* bound to $x.                                                            *)
(***************************************************************************)
Expr(q, syntax, refs, out) == [q |-> q, syntax |-> syntax, refs |-> refs, out |-> out]

typeQueryExpr == Expr("typeQuery", TRUE, {"$type"}, <<>>)
searchQueryExpr == Expr("searchQuery", TRUE, {"$pattern"}, <<>>)
mutationQueryExpr == Expr("mutationQuery", TRUE, {"$mutation"}, <<>>)
fieldSearchQueryExpr == Expr("fieldSearchQuery", TRUE, {"$pattern"}, <<>>)
interfaceImplementersQueryExpr ==
  Expr("interfaceImplementersQuery", TRUE, {"$interface"}, <<>>)

\* Go errors: nil, or a message with the error it wraps
NoError == [msg |-> "nil", cause |-> Null]
Error(msg, cause) == [msg |-> msg, cause |-> cause]

\* map[string]interface{}: nil, or a map m together with range, the order in
\* which "for k := range" yields its keys at this call (any order, in Go)
NilVariables == [nil |-> TRUE, m |-> <<>>, range |-> <<>>]
Ranged(m, keys) == [nil |-> FALSE, m |-> m, range |-> keys]
\* a map of at most one key, which has one order
Variables(m) ==
  Ranged(m, IF DOMAIN m = {} THEN <<>> ELSE <<CHOOSE k \in DOMAIN m : TRUE>>)

\* the variable names of the model, in the byte order sort.Strings gives
VarNameOrder ==
  <<"$interface", "$mutation", "$pattern", "$type", "$x", "$y", "x">>

\* sort.Strings(a)
sortStrings(a) == SelectSeq(VarNameOrder, LAMBDA n : \E i \in 1..Len(a) : a[i] = n)

\* the keys appended by the range loop
rangeKeys(variables) == IF variables.nil THEN <<>> ELSE variables.range

\* values appended in the order of the range loop, not of the sorted names
varValuesInRangeOrder(variables, varNames) ==
  [i \in 1..Len(varNames) |-> variables.m[rangeKeys(variables)[i]]]

\* the values appended for the sorted names
varValuesOf(variables, varNames) ==
  [i \in 1..Len(varNames) |-> variables.m[varNames[i]]]

\* a Parse whose error is not looked at
ParseUnchecked(expr) == TRUE

\* gojq.Parse
Parse(expr) == expr.syntax

\* gojq's check of the names given to WithVariables
validVarName(n) == Len(n) > 1 /\ SubSeq(n, 1, 1) = "$"

\* gojq.Compile(parsed, gojq.WithVariables(varNames))
Compile(expr, varNames) ==
  /\ \A i \in 1..Len(varNames) : validVarName(varNames[i])
  /\ \A r \in expr.refs : \E i \in 1..Len(varNames) : varNames[i] = r

\* code.Run(s.data, varValues...): values are bound to names by position
Run(expr, d, varNames, varValues) ==
  LET bound(n) == varValues[CHOOSE i \in 1..Len(varNames) : varNames[i] = n]
  IN  CASE expr.q = "typeQuery" -> typeQuery(d, bound("$type"))
        [] expr.q = "searchQuery" -> searchQuery(d, bound("$pattern"))
        [] expr.q = "mutationQuery" -> mutationQuery(d, bound("$mutation"))
        [] expr.q = "fieldSearchQuery" -> fieldSearchQuery(d, bound("$pattern"))
        [] expr.q = "interfaceImplementersQuery" ->
             interfaceImplementersQuery(d, bound("$interface"))
        [] expr.q = "$x" -> <<bound("$x")>>
        [] expr.q = "[$x, $y]" -> <<Arr(<<bound("$x"), bound("$y")>>)>>
        [] OTHER -> expr.out

\* a loop that drops the error values and keeps collecting
RECURSIVE QueryLoopSkippingErrors(_, _)
QueryLoopSkippingErrors(iter, results) ==
  IF Len(iter) = 0 THEN [results |-> results, err |-> NoError]
  ELSE IF IsErr(Head(iter))
  THEN QueryLoopSkippingErrors(Tail(iter), results)
  ELSE QueryLoopSkippingErrors(Tail(iter), Append(results, Head(iter)))

\* the loop of Query over iter.Next()
RECURSIVE QueryLoop(_, _)
QueryLoop(iter, results) ==
  IF Len(iter) = 0 THEN [results |-> results, err |-> NoError]
  ELSE IF IsErr(Head(iter))
  THEN [results |-> <<>>, err |-> Error("jq execution error", Head(iter))]
  ELSE QueryLoop(Tail(iter), Append(results, Head(iter)))

\* a return that never unwraps a single result
CollapseToList(results) ==
  IF Len(results) = 0 THEN Null ELSE Arr(results)

\* the return of Query and of the pipeline Query
Collapse(results) ==
  IF Len(results) = 0 THEN Null
  ELSE IF Len(results) = 1 THEN results[1]
  ELSE Arr(results)

\* what Query returns once its loop has ended as loop
QueryReturn(loop) ==
  IF loop.err # NoError
  THEN [ret |-> Null, err |-> loop.err, ran |-> TRUE]
  ELSE [ret |-> Collapse(loop.results), err |-> NoError, ran |-> TRUE]

\* Schema.Query; ran tells whether code.Run was reached
Query(d, expr, variables) ==
  LET varNames == sortStrings(rangeKeys(variables))
      varValues == varValuesOf(variables, varNames)
  IN  IF ~Parse(expr)
      THEN [ret |-> Null, err |-> Error("failed to parse jq query", Err("syntax")),
            ran |-> FALSE]
      ELSE IF ~Compile(expr, varNames)
      THEN [ret |-> Null, err |-> Error("failed to compile jq query", Err("compile")),
            ran |-> FALSE]
      ELSE QueryReturn(QueryLoop(Run(expr, d, varNames, varValues), <<>>))

\* a runQuery that answers an absent result with an empty object
runQueryEmptyObject(r) ==
  IF r.err # NoError THEN [ret |-> Null, err |-> r.err, ran |-> r.ran]
  ELSE IF r.ret = Null THEN [ret |-> Obj(<<>>), err |-> NoError, ran |-> r.ran]
  ELSE IF r.ret.t = "object" THEN [ret |-> r.ret, err |-> NoError, ran |-> r.ran]
  ELSE [ret |-> Null, err |-> Error("unexpected result type", Null), ran |-> r.ran]

\* a runQuery that answers a list of results with the first of them
runQueryFirstOfList(r) ==
  IF r.err # NoError THEN [ret |-> Null, err |-> r.err, ran |-> r.ran]
  ELSE IF r.ret = Null
  THEN [ret |-> Null, err |-> Error("no results found", Null), ran |-> r.ran]
  ELSE IF r.ret.t = "object" THEN [ret |-> r.ret, err |-> NoError, ran |-> r.ran]
  ELSE IF r.ret.t = "array" /\ Len(r.ret.a) > 0
  THEN [ret |-> r.ret.a[1], err |-> NoError, ran |-> r.ran]
  ELSE [ret |-> Null, err |-> Error("unexpected result type", Null), ran |-> r.ran]

\* what runQuery returns once Query has returned r
runQueryReturn(r) ==
  IF r.err # NoError THEN [ret |-> Null, err |-> r.err, ran |-> r.ran]
  ELSE IF r.ret = Null
  THEN [ret |-> Null, err |-> Error("no results found", Null), ran |-> r.ran]
  ELSE IF r.ret.t = "object" THEN [ret |-> r.ret, err |-> NoError, ran |-> r.ran]
  ELSE [ret |-> Null, err |-> Error("unexpected result type", Null), ran |-> r.ran]

\* Schema.runQuery
runQuery(d, query, variables) == runQueryReturn(Query(d, query, variables))

\* Schema.Type
Type(d, typeName) ==
  runQuery(d, typeQueryExpr, Variables("$type" :> Str(typeName)))

\* Schema.Search
Search(d, pattern) ==
  runQuery(d, searchQueryExpr, Variables("$pattern" :> Str(pattern)))

\* Schema.Mutation
Mutation(d, mutationName) ==
  runQuery(d, mutationQueryExpr, Variables("$mutation" :> Str(mutationName)))

\* what the pipeline Query returns once Execute has returned e
PipelineQueryReturn(e) ==
  IF e.err # NoError
  THEN [ret |-> Null, err |-> e.err, ran |-> e.ran]
  ELSE [ret |-> Collapse(e.results), err |-> NoError, ran |-> e.ran]

\* what Execute hands back once the run has ended as loop
ExecuteReturn(loop) == [results |-> loop.results, err |-> loop.err, ran |-> TRUE]

\* pipeline.Execute with the collecting callback: the pipeline compiles the
\* query with the variables, hands every produced value to the callback and
\* returns the first error
Execute(d, expr, variables) ==
  LET names == sortStrings(rangeKeys(variables))
      values == [i \in 1..Len(names) |-> variables.m[names[i]]]
  IN  IF ~Compile(expr, names)
      THEN [results |-> <<>>, err |-> Error("failed to compile jq query", Err("compile")),
            ran |-> FALSE]
      ELSE ExecuteReturn(QueryLoop(Run(expr, d, names, values), <<>>))

\* Schema.Query of the pipeline variant of the package
PipelineQuery(d, expr, variables) ==
  IF ~Parse(expr)
  THEN [ret |-> Null, err |-> Error("failed to create jq pipeline", Err("syntax")),
        ran |-> FALSE]
  ELSE PipelineQueryReturn(Execute(d, expr, variables))

(***************************************************************************)
(* Documents: GraphQL introspection results {"data": {"__schema": {"types":*)
(* [...]}}} over a pool of type objects.                                   *)
(***************************************************************************)
NamedRef(kind, name) == Obj([kind |-> Str(kind), name |-> Str(name), ofType |-> Null])
NonNull(t) == Obj([kind |-> Str("NON_NULL"), name |-> Null, ofType |-> t])
ListOf(t) == Obj([kind |-> Str("LIST"), name |-> Null, ofType |-> t])

InputValue(name, description, type) ==
  Obj([name |-> Str(name), description |-> description, type |-> type,
       defaultValue |-> Null])

FieldObj(name, description, args, type) ==
  Obj([name |-> Str(name), description |-> description, args |-> Arr(args),
       type |-> type, isDeprecated |-> Bool(FALSE)])

EnumValue(name, description) ==
  Obj([name |-> Str(name), description |-> description, isDeprecated |-> Bool(FALSE)])

TypeObj(kind, name, description, fields, inputFields, enumValues) ==
  Obj([kind |-> Str(kind), name |-> name, description |-> description,
       fields |-> fields, inputFields |-> inputFields, enumValues |-> enumValues,
       interfaces |-> Null, possibleTypes |-> Null])

Doc(ts) == Obj([data |-> Obj([__schema |-> Obj([types |-> Arr(ts)])])])

\* a text of n characters, the i-th being the last digit of i
RECURSIVE TextOfLen(_)
TextOfLen(n) ==
  IF n <= 10 THEN SubSeq("1234567890", 1, n)
  ELSE "1234567890" \o TextOfLen(n - 10)

IDRef == NamedRef("SCALAR", "ID")

Repository ==
  TypeObj("OBJECT", Str("Repository"), Str(TextOfLen(100)),
    Arr(<<FieldObj("id", Null, <<>>, NonNull(IDRef)),
          FieldObj("issues", Str("A list of issues."),
            <<InputValue("first", Null, NamedRef("SCALAR", "Int")),
              InputValue("states", Str("Filter by state."),
                         ListOf(NonNull(NamedRef("ENUM", "IssueState"))))>>,
            NonNull(ListOf(NonNull(NamedRef("OBJECT", "Issue")))))>>),
    Null, Null)

CreateIssueInput ==
  TypeObj("INPUT_OBJECT", Str("CreateIssueInput"), Null, Null,
    Arr(<<InputValue("repositoryId", Str("The repository."), NonNull(IDRef)),
          InputValue("title", Null, NamedRef("SCALAR", "String")),
          InputValue("labelIds", Null, ListOf(NonNull(IDRef)))>>),
    Null)

IssueState ==
  TypeObj("ENUM", Str("IssueState"), Str(TextOfLen(101)),
    Null, Null,
    Arr(<<EnumValue("OPEN", Str("An open issue.")), EnumValue("CLOSED", Null)>>))

MutationType ==
  TypeObj("OBJECT", Str("Mutation"), Str(TextOfLen(137)),
    Arr(<<FieldObj("createIssue", Str("Creates an issue."),
            <<InputValue("input", Str("Parameters."),
                         NonNull(NamedRef("INPUT_OBJECT", "CreateIssueInput")))>>,
            NamedRef("OBJECT", "CreateIssuePayload")),
          FieldObj("closeIssue", Null,
            <<InputValue("id", Str("The issue."), NonNull(IDRef)),
              InputValue("force", Null, NamedRef("SCALAR", "Boolean"))>>,
            NamedRef("OBJECT", "Issue")),
          FieldObj("updateIssue", Null,
            <<InputValue("input", Null, NamedRef("INPUT_OBJECT", "CreateIssueInput")),
              InputValue("ids", Null, ListOf(NonNull(IDRef)))>>,
            NamedRef("OBJECT", "Issue")),
          FieldObj("addLabels", Null,
            <<InputValue("labelIds", Str("The labels."), NonNull(ListOf(NonNull(IDRef)))),
              InputValue("note", Null, NonNull(NamedRef("SCALAR", "String"))),
              InputValue("quiet", Null, NamedRef("SCALAR", "Boolean"))>>,
            NamedRef("OBJECT", "Issue")),
          FieldObj("ping", Str("Does nothing."), <<>>, NamedRef("SCALAR", "Boolean"))>>),
    Null, Null)

ReviewThread ==
  TypeObj("OBJECT", Str("ReviewThread"), Str("A thread of review comments."),
    Arr(<<>>), Null, Null)

IDScalar ==
  TypeObj("SCALAR", Str("ID"), Str(TextOfLen(99)),
    Null, Null, Null)

\* a type object without a name
Nameless == TypeObj("OBJECT", Null, Null, Null, Null, Null)

TypePool == {Repository, CreateIssueInput, IssueState, MutationType, ReviewThread, IDScalar}

\* a type object "Thing" whose fields, inputFields and enumValues are each
\* missing, null, an empty list or a list of two
Presence == {"missing", "null", "empty", "list"}

Property(key, presence, list) ==
  CASE presence = "missing" -> <<>>
    [] presence = "null" -> key :> Null
    [] presence = "empty" -> key :> Arr(<<>>)
    [] presence = "list" -> key :> Arr(list)

Thing(f, i, e) ==
  Obj([kind |-> Str("OBJECT"), name |-> Str("Thing"), description |-> Null]
      @@ Property("fields", f,
           <<FieldObj("a", Null, <<>>, IDRef), FieldObj("b", Null, <<>>, ListOf(IDRef))>>)
      @@ Property("inputFields", i,
           <<InputValue("c", Null, NonNull(IDRef)), InputValue("d", Null, ListOf(NonNull(IDRef)))>>)
      @@ Property("enumValues", e, <<EnumValue("X", Null), EnumValue("Y", Str("why"))>>))

Things == {Thing(f, i, e) : f \in Presence, i \in Presence, e \in Presence}

RECURSIVE SeqsUpTo(_, _)
SeqsUpTo(S, n) ==
  IF n = 0 THEN {<<>>}
  ELSE LET shorter == SeqsUpTo(S, n - 1)
       IN  shorter \cup {Append(q, x) : q \in {r \in shorter : Len(r) = n - 1}, x \in S}

Docs ==
  {Doc(ts) : ts \in SeqsUpTo(TypePool, MaxTypes)}
    \cup {Doc(<<t>>) : t \in Things}
    \cup {Doc(<<Repository, Nameless>>), Doc(<<Thing("list", "list", "list"), Thing("null", "list", "null")>>),
          Obj([data |-> Null])}

\* types that carry possibleTypes: two implementers, none
Node ==
  Obj([kind |-> Str("INTERFACE"), name |-> Str("Node"), description |-> Null,
       fields |-> Arr(<<FieldObj("id", Null, <<>>, NonNull(IDRef))>>),
       inputFields |-> Null, enumValues |-> Null, interfaces |-> Null,
       possibleTypes |-> Arr(<<NamedRef("OBJECT", "Repository"),
                               NamedRef("OBJECT", "Issue")>>)])

Lonely ==
  Obj([kind |-> Str("INTERFACE"), name |-> Str("Lonely"), description |-> Null,
       fields |-> Arr(<<>>),
       inputFields |-> Null, enumValues |-> Null, interfaces |-> Null,
       possibleTypes |-> Arr(<<>>)])

\* the documents of the field search and of the implementers lookup
LookupDocs == Docs \cup {Doc(ts) : ts \in SeqsUpTo({Node, Lonely, Repository}, MaxTypes)}

FieldPatterns == {"issue", "^I", "id", "ISSUES$", "zzz", "(", ""}
InterfaceNames == {"Node", "Lonely", "Repository", "Thing", "Zzz"}

\* goroutines calling into one Schema at the same time
CallIds == 1..MaxCalls

\* a goroutine that is in no call
IdleCall ==
  [pc |-> "idle", op |-> "none", arg |-> Null, taken |-> 0, results |-> <<>>,
   ret |-> Null, err |-> NoError, cancel |-> FALSE]

(***************************************************************************)
(* The calls.  A call is made when no call is pending (op = "idle"); it    *)
(* leaves its inputs in arg and what it returned in ret and err; Return    *)
(* hands the result to the caller.                                         *)
(***************************************************************************)
TypeNames == {"Repository", "CreateIssueInput", "IssueState", "Mutation", "Thing", "Zzz"}
Patterns == {"^Re", "review", "e$", "Input", "Zzz", "^iD$", "(", ""}
MutationNames == {"createIssue", "closeIssue", "updateIssue", "addLabels", "ping", "nope"}

Idle == op = "idle"

\* the call o of inputs a has returned r
Returned(o, a, r) ==
  /\ op' = o
  /\ arg' = a
  /\ ret' = r.ret
  /\ err' = r.err
  /\ ran' = r.ran
  /\ UNCHANGED <<calls, schemas, files, written>>

TypeCall ==
  /\ Idle
  /\ \E name \in TypeNames :
       Returned("Type", [name |-> name], Type(data, name))
  /\ UNCHANGED data

SearchCall ==
  /\ Idle
  /\ \E pattern \in Patterns :
       Returned("Search", [pattern |-> pattern], Search(data, pattern))
  /\ UNCHANGED data

MutationCall ==
  /\ Idle
  /\ \E name \in MutationNames :
       Returned("Mutation", [name |-> name], Mutation(data, name))
  /\ UNCHANGED data

Return ==
  /\ ~Idle
  /\ op' = "idle"
  /\ arg' = Null
  /\ ret' = Null
  /\ err' = NoError
  /\ ran' = FALSE
  /\ written' = ""
  /\ UNCHANGED <<data, calls, schemas, files>>

\* ad-hoc expressions: one that does not parse, "$x", "[$x, $y]", and
\* expressions that produce each stream of at most MaxOut values and errors,
\* with and without a reference to $x
EngineValues == {Null, Str("a"), Obj([k |-> Num(1)]), Err("boom")}

AdhocExprs ==
  {Expr("(", FALSE, {}, <<>>), Expr("$x", TRUE, {"$x"}, <<>>),
   Expr("[$x, $y]", TRUE, {"$x", "$y"}, <<>>)}
    \cup {Expr("adhoc", TRUE, refs, out) :
            refs \in {{}, {"$x"}}, out \in SeqsUpTo(EngineValues, MaxOut)}

\* variable maps: nil, empty, of one key, and of two keys in both orders of
\* iteration
AdhocVariables ==
  {NilVariables, Variables(<<>>), Variables("$x" :> Str("v")),
   Variables("x" :> Str("v")),
   Ranged("$x" :> Str("v") @@ "$y" :> Str("w"), <<"$x", "$y">>),
   Ranged("$x" :> Str("v") @@ "$y" :> Str("w"), <<"$y", "$x">>)}

QueryCall ==
  /\ Idle
  /\ \E expr \in AdhocExprs, variables \in AdhocVariables :
       Returned("Query", [expr |-> expr, variables |-> variables], Query(data, expr, variables))
  /\ UNCHANGED data

PipelineQueryCall ==
  /\ Idle
  /\ \E expr \in AdhocExprs, variables \in AdhocVariables :
       Returned("PipelineQuery", [expr |-> expr, variables |-> variables], PipelineQuery(data, expr, variables))
  /\ UNCHANGED data

\* runQuery with an ad-hoc expression, as the package can call it
RunQueryCall ==
  /\ Idle
  /\ \E expr \in AdhocExprs, variables \in AdhocVariables :
       Returned("runQuery", [expr |-> expr, variables |-> variables], runQuery(data, expr, variables))
  /\ UNCHANGED data

\* the field search, run through Query
FieldSearchCall ==
  /\ Idle
  /\ \E pattern \in FieldPatterns :
       Returned("FieldSearch", [pattern |-> pattern],
                Query(data, fieldSearchQueryExpr, Variables("$pattern" :> Str(pattern))))
  /\ UNCHANGED data

\* the implementers lookup, run through Query
ImplementersCall ==
  /\ Idle
  /\ \E name \in InterfaceNames :
       Returned("Implementers", [name |-> name],
                Query(data, interfaceImplementersQueryExpr,
                      Variables("$interface" :> Str(name))))
  /\ UNCHANGED data

\* type references: wrappers, outermost first, around an innermost value
Wrappers == {"NON_NULL", "LIST"}

RECURSIVE Wrap(_, _)
Wrap(ws, inner) ==
  IF Len(ws) = 0 THEN inner
  ELSE IF Head(ws) = "NON_NULL" THEN NonNull(Wrap(Tail(ws), inner))
  ELSE ListOf(Wrap(Tail(ws), inner))

\* innermost values: named types, a node without a name, and values that are
\* no objects
Innermost ==
  {NamedRef("SCALAR", "ID"), NamedRef("OBJECT", "T"),
   Obj([kind |-> Str("SCALAR"), name |-> Null, ofType |-> Null]),
   Null, Str("Raw"), Num(7), Bool(FALSE)}

FormatTypeCall ==
  /\ Idle
  /\ \E ws \in SeqsUpTo(Wrappers, MaxDepth), inner \in Innermost :
       /\ op' = "formatType"
       /\ arg' = [wrappers |-> ws, inner |-> inner]
       /\ ret' = formatType(Wrap(ws, inner))
       /\ err' = NoError
       /\ ran' = TRUE
  /\ UNCHANGED <<data, calls, schemas, files, written>>

MutationFormatTypeCall ==
  /\ Idle
  /\ \E ws \in SeqsUpTo(Wrappers, MaxDepth), inner \in Innermost :
       /\ op' = "mutationFormatType"
       /\ arg' = [wrappers |-> ws, inner |-> inner]
       /\ ret' = mutationFormatType(Wrap(ws, inner))
       /\ err' = NoError
       /\ ran' = TRUE
  /\ UNCHANGED <<data, calls, schemas, files, written>>

(***************************************************************************)
(* Calls of several goroutines on one Schema.  A call is a sequence of     *)
(* steps: it parses and compiles, then takes one value from its iterator   *)
(* at a time, collecting into its own results, and returns when the        *)
(* iterator ends or yields an error.  The iterator reads the shared        *)
(* document at every step.                                                 *)
(***************************************************************************)
\* the expression and the variables a call hands to Query
exprOf(o, a) ==
  CASE o = "Type" -> typeQueryExpr
    [] o = "Search" -> searchQueryExpr
    [] o = "Mutation" -> mutationQueryExpr
    [] OTHER -> a.expr

variablesOf(o, a) ==
  CASE o = "Type" -> Variables("$type" :> Str(a.name))
    [] o = "Search" -> Variables("$pattern" :> Str(a.pattern))
    [] o = "Mutation" -> Variables("$mutation" :> Str(a.name))
    [] OTHER -> a.variables

\* the error that ends a call before it runs, NoError when it runs
rejected(o, a) ==
  IF ~Parse(exprOf(o, a))
  THEN Error(IF o = "PipelineQuery" THEN "failed to create jq pipeline"
             ELSE "failed to parse jq query", Err("syntax"))
  ELSE IF ~Compile(exprOf(o, a), sortStrings(rangeKeys(variablesOf(o, a))))
  THEN Error("failed to compile jq query", Err("compile"))
  ELSE NoError

\* the call record after parse and compile
begun(o, a) ==
  [pc |-> IF rejected(o, a) = NoError THEN "run" ELSE "done",
   op |-> o, arg |-> a, taken |-> 0, results |-> <<>>,
   ret |-> Null, err |-> rejected(o, a), cancel |-> FALSE]

\* the values the iterator of the call yields over the document d
iterOf(d, o, a) ==
  Run(exprOf(o, a), d, sortStrings(rangeKeys(variablesOf(o, a))),
      varValuesOf(variablesOf(o, a), sortStrings(rangeKeys(variablesOf(o, a)))))

\* what the call returns once its loop has ended as loop
returnOf(o, loop) ==
  CASE o \in {"Type", "Search", "Mutation"} -> runQueryReturn(QueryReturn(loop))
    [] o = "Query" -> QueryReturn(loop)
    [] o = "PipelineQuery" -> PipelineQueryReturn(ExecuteReturn(loop))

finished(cs, c, loop) ==
  [cs EXCEPT ![c].pc = "done",
             ![c].ret = returnOf(cs[c].op, loop).ret,
             ![c].err = returnOf(cs[c].op, loop).err]

\* results as one slice that all calls append to
appendResultShared(cs, c, v) ==
  [k \in DOMAIN cs |->
     IF k = c THEN [cs[k] EXCEPT !.results = Append(@, v), !.taken = @ + 1]
     ELSE IF cs[k].pc = "run" THEN [cs[k] EXCEPT !.results = Append(@, v)]
     ELSE cs[k]]

\* results = append(results, v), results being local to the call
appendResult(cs, c, v) ==
  [cs EXCEPT ![c].results = Append(@, v), ![c].taken = @ + 1]

\* one turn of the loop of call c over the iterator iter
afterNext(cs, c, iter) ==
  IF cs[c].taken = Len(iter)
  THEN finished(cs, c, [results |-> cs[c].results, err |-> NoError])
  ELSE IF IsErr(iter[cs[c].taken + 1])
  THEN finished(cs, c, [results |-> <<>>,
                        err |-> Error("jq execution error", iter[cs[c].taken + 1])])
  ELSE appendResult(cs, c, iter[cs[c].taken + 1])

\* documents and inputs of the concurrent calls
SharedDocs ==
  {Doc(<<Repository, MutationType, CreateIssueInput>>), Doc(<<Repository, Repository>>),
   Obj([data |-> Null])}

SharedInputs ==
  {[op |-> "Type", arg |-> [name |-> n]] : n \in {"Repository", "Zzz"}}
    \cup {[op |-> "Search", arg |-> [pattern |-> "re"]],
          [op |-> "Mutation", arg |-> [name |-> "createIssue"]]}
    \cup {[op |-> o, arg |-> [expr |-> Expr("adhoc", TRUE, {}, out), variables |-> NilVariables]] :
            o \in {"Query", "PipelineQuery"},
            out \in {<<>>, <<Str("a"), Null>>, <<Str("a"), Err("boom"), Str("a")>>}}
    \cup {[op |-> "Query", arg |-> [expr |-> e, variables |-> v]] :
            e \in {Expr("(", FALSE, {}, <<>>), Expr("$x", TRUE, {"$x"}, <<>>)},
            v \in {NilVariables}}
    \cup {[op |-> "Query", arg |-> [expr |-> Expr("$x", TRUE, {"$x"}, <<>>),
                                    variables |-> Variables("$x" :> Str("v"))]]}

\* goroutine c enters a call
Begin(c) ==
  /\ calls[c].pc = "idle"
  /\ \E i \in SharedInputs : calls' = [calls EXCEPT ![c] = begun(i.op, i.arg)]
  /\ UNCHANGED <<data, op, arg, ret, err, ran, schemas, files, written>>

\* a call that keeps the value it took as the document
IterNextStoring(c) ==
  /\ calls[c].pc = "run"
  /\ calls' = afterNext(calls, c, iterOf(data, calls[c].op, calls[c].arg))
  /\ data' = IF calls'[c].pc = "run" THEN calls'[c].results[calls'[c].taken] ELSE data
  /\ UNCHANGED <<op, arg, ret, err, ran, schemas, files, written>>

\* an expression whose evaluation never yields a value and never ends
untilFalseExpr == Expr("until(false; .)", TRUE, {}, <<>>)

endless(expr) == expr = untilFalseExpr

\* iter.Next() of call c has returned, and what the loop does with the value
IterNext(c) ==
  /\ calls[c].pc = "run"
  /\ ~endless(exprOf(calls[c].op, calls[c].arg))
  /\ calls' = afterNext(calls, c, iterOf(data, calls[c].op, calls[c].arg))
  /\ UNCHANGED <<data, op, arg, ret, err, ran, schemas, files, written>>

\* the caller of c has taken the result
Release(c) ==
  /\ calls[c].pc = "done"
  /\ calls' = [calls EXCEPT ![c] = IdleCall]
  /\ UNCHANGED <<data, op, arg, ret, err, ran, schemas, files, written>>

\* calls that end and a call that does not
CancelInputs ==
  {[op |-> o, arg |-> [expr |-> e, variables |-> NilVariables]] :
     o \in {"Query", "PipelineQuery"},
     e \in {Expr("adhoc", TRUE, {}, <<Str("a"), Null>>),
            Expr("adhoc", TRUE, {}, <<Str("a"), Err("boom")>>),
            Expr("(", FALSE, {}, <<>>), untilFalseExpr}}

\* goroutine c enters a call that its caller may want to cancel
BeginCancellable(c) ==
  /\ calls[c].pc = "idle"
  /\ \E i \in CancelInputs : calls' = [calls EXCEPT ![c] = begun(i.op, i.arg)]
  /\ UNCHANGED <<data, op, arg, ret, err, ran, schemas, files, written>>

\* the caller of c gives the call up: its deadline passes or it cancels.
\* Query takes no context and hands none that can end to the engine, so
\* the request stays with the caller and the call does not see it
Cancel(c) ==
  /\ calls[c].pc = "run"
  /\ ~calls[c].cancel
  /\ calls' = [calls EXCEPT ![c].cancel = TRUE]
  /\ UNCHANGED <<data, op, arg, ret, err, ran, schemas, files, written>>

(***************************************************************************)
(* NewWithData.  marshal.Unmarshal decodes YAML, of which JSON is the flow  *)
(* syntax.  The decoder is modelled on the texts of ByteBuffers: flow      *)
(* mappings and sequences, double-quoted strings, plain scalars, a block   *)
(* mapping of one line, and the empty text.                                *)
(***************************************************************************)
\* the character of s at i, "" past the end
Char(s, i) == IF i \in 1..Len(s) THEN SubSeq(s, i, i) ELSE ""

Decoded(v, i) == [ok |-> TRUE, v |-> v, i |-> i]
Undecodable == [ok |-> FALSE, v |-> Null, i |-> 0]

Digits == "0123456789"
IsDigit(c) == \E k \in 1..Len(Digits) : SubSeq(Digits, k, k) = c
DigitValue(c) == (CHOOSE k \in 1..Len(Digits) : SubSeq(Digits, k, k) = c) - 1

RECURSIVE NumberValue(_)
NumberValue(t) ==
  IF Len(t) = 1 THEN DigitValue(t)
  ELSE 10 * NumberValue(SubSeq(t, 1, Len(t) - 1)) + DigitValue(SubSeq(t, Len(t), Len(t)))

\* a plain scalar: null, a boolean, an integer or a string
scalar(t) ==
  CASE t = "null" -> Null
    [] t = "true" -> Bool(TRUE)
    [] t = "false" -> Bool(FALSE)
    [] Len(t) > 0 /\ (\A k \in 1..Len(t) : IsDigit(SubSeq(t, k, k))) -> Num(NumberValue(t))
    [] OTHER -> Str(t)

\* the first place from i on where one of the characters of stops stands, or
\* the end of the text
scanTo(s, i, stops) ==
  IF \E j \in i..Len(s) : Char(s, j) \in stops
  THEN CHOOSE j \in i..Len(s) : Char(s, j) \in stops /\ \A k \in i..(j - 1) : Char(s, k) \notin stops
  ELSE Len(s) + 1

\* a double-quoted string that opens at i
decodeQuoted(s, i) ==
  IF scanTo(s, i + 1, {"\""}) > Len(s) THEN Undecodable
  ELSE Decoded(Str(SubSeq(s, i + 1, scanTo(s, i + 1, {"\""}) - 1)), scanTo(s, i + 1, {"\""}) + 1)

\* a plain scalar inside a flow collection, from i
decodePlain(s, i) ==
  IF scanTo(s, i, {",", "]", "}", ":"}) = i THEN Undecodable
  ELSE Decoded(scalar(SubSeq(s, i, scanTo(s, i, {",", "]", "}", ":"}) - 1)),
               scanTo(s, i, {",", "]", "}", ":"}))

RECURSIVE decodeValue(_, _), decodeMembers(_, _, _), decodeMember(_, _, _),
          decodeElements(_, _, _), afterMember(_, _, _, _), afterElement(_, _, _)

\* after "key": value of a flow mapping
afterMember(s, o, k, r) ==
  IF ~r.ok THEN Undecodable
  ELSE IF Char(s, r.i) = "," THEN decodeMembers(s, r.i + 1, o @@ (k :> r.v))
  ELSE IF Char(s, r.i) = "}" THEN Decoded(Obj(o @@ (k :> r.v)), r.i + 1)
  ELSE Undecodable

\* the member whose key has been decoded as k
decodeMember(s, o, k) ==
  IF ~k.ok \/ Char(s, k.i) # ":" THEN Undecodable
  ELSE afterMember(s, o, k.v.s, decodeValue(s, k.i + 1))

\* the members of a flow mapping from i, o being those before
decodeMembers(s, i, o) ==
  IF Char(s, i) = "\"" THEN decodeMember(s, o, decodeQuoted(s, i)) ELSE Undecodable

\* after an element of a flow sequence
afterElement(s, a, r) ==
  IF ~r.ok THEN Undecodable
  ELSE IF Char(s, r.i) = "," THEN decodeElements(s, r.i + 1, Append(a, r.v))
  ELSE IF Char(s, r.i) = "]" THEN Decoded(Arr(Append(a, r.v)), r.i + 1)
  ELSE Undecodable

decodeElements(s, i, a) == afterElement(s, a, decodeValue(s, i))

\* the value that starts at i
decodeValue(s, i) ==
  CASE Char(s, i) = "{" ->
         IF Char(s, i + 1) = "}" THEN Decoded(Obj(<<>>), i + 2)
         ELSE decodeMembers(s, i + 1, <<>>)
    [] Char(s, i) = "[" ->
         IF Char(s, i + 1) = "]" THEN Decoded(Arr(<<>>), i + 2)
         ELSE decodeElements(s, i + 1, <<>>)
    [] Char(s, i) = "\"" -> decodeQuoted(s, i)
    [] OTHER -> decodePlain(s, i)

\* what the decoder hands back for the value decoded as r from all of s
decodedDocument(s, r) ==
  IF r.ok /\ r.i = Len(s) + 1 THEN [v |-> r.v, err |-> NoError]
  ELSE [v |-> Null, err |-> Error("yaml: syntax error", Null)]

\* a block mapping "key: value" of one line, the colon standing at c
blockMapping(s, c) ==
  [v |-> Obj(SubSeq(s, 1, c - 1) :> scalar(SubSeq(s, c + 2, Len(s)))), err |-> NoError]

\* marshal.Unmarshal(data, &schema): the value left in schema and the error;
\* an empty text is no document, which leaves schema nil and is no error
Unmarshal(bytes) ==
  CASE Len(bytes) = 0 -> [v |-> Null, err |-> NoError]
    [] Char(bytes, 1) \in {"{", "[", "\""} -> decodedDocument(bytes, decodeValue(bytes, 1))
    [] \E c \in 2..(Len(bytes) - 2) : SubSeq(bytes, c, c + 1) = ": " ->
         blockMapping(bytes, CHOOSE c \in 2..(Len(bytes) - 2) : SubSeq(bytes, c, c + 1) = ": ")
    [] OTHER -> [v |-> scalar(bytes), err |-> NoError]

\* what NewWithData returns once Unmarshal has returned u: a nil Schema and
\* the wrapped error, or a new Schema of the decoded value
newWithDataReturn(u) ==
  IF u.err # NoError
  THEN [schema |-> Null, err |-> Error("failed to parse schema", u.err)]
  ELSE [schema |-> [data |-> u.v], err |-> NoError]

\* NewWithData
NewWithData(bytes) == newWithDataReturn(Unmarshal(bytes))

\* the byte buffers given to NewWithData
ByteBuffers ==
  {"{\"data\":{\"__schema\":{\"types\":[]}}}",
   "{\"data\":{\"__schema\":{\"types\":[{\"name\":\"T\",\"kind\":\"SCALAR\"}]}}}",
   "{\"data\":null}", "null",
   "{\"data\":", "[1,",
   "data: x", ""}

\* NewWithData(b) has returned r: a Schema it constructed is a new object
Loaded(b, r) ==
  /\ op' = "NewWithData"
  /\ arg' = [bytes |-> b]
  /\ ret' = IF r.err # NoError THEN Null ELSE [t |-> "pointer", at |-> Len(schemas) + 1]
  /\ err' = r.err
  /\ ran' = FALSE
  /\ schemas' = IF r.err # NoError THEN schemas ELSE Append(schemas, r.schema)
  /\ UNCHANGED <<data, calls, files, written>>

NewWithDataCall ==
  /\ Idle
  /\ Len(schemas) < MaxSchemas
  /\ \E b \in ByteBuffers : Loaded(b, NewWithData(b))

\* Type on one of the constructed Schemas
TypeOnCall ==
  /\ Idle
  /\ \E i \in 1..Len(schemas), name \in {"T", "Zzz"} :
       Returned("Type", [schema |-> i, name |-> name], Type(schemas[i].data, name))
  /\ UNCHANGED data

(***************************************************************************)
(* Downloads (schema/download.go).  A call is given the response of the    *)
(* server, or none when the transport fails, and a writer or an output     *)
(* path.  Byte strings are texts.  written holds what the writer of the    *)
(* pending call has received, files the output paths.                      *)
(***************************************************************************)
\* http.StatusOK
StatusOK == 200

Paths == {"schema.json", "schema.json.gz", "missing/schema.json"}

NoFile == [exists |-> FALSE, bytes |-> ""]
File(b) == [exists |-> TRUE, bytes |-> b]

\* os.Create succeeds where the directory of the path exists
creatable(path) == Len(path) > 0 /\ (Len(path) < 8 \/ SubSeq(path, 1, 8) # "missing/")

prefix(b, n) == SubSeq(b, 1, IF Len(b) < n THEN Len(b) ELSE n)

\* compress/gzip: a header, the deflated payload, and a trailer that carries
\* the length of the payload
gzipHeader == "\\x1f\\x8b"

\* the payload as the stream carries it: not the text itself
RECURSIVE deflate(_)
deflate(b) ==
  IF Len(b) = 0 THEN b ELSE deflate(SubSeq(b, 2, Len(b))) \o SubSeq(b, 1, 1)

gzipTrailer(b) == "|" \o ToString(Len(b))

gzip(b) == gzipHeader \o deflate(b) \o gzipTrailer(b)

\* gzip.NewReader and reading to the end: the payload, or not a gzip stream
gunzip(x) ==
  LET h == Len(gzipHeader)
      ks == {k \in 0..(Len(x) - h) : gzip(deflate(SubSeq(x, h + 1, h + k))) = x}
  IN  IF ks = {} THEN [ok |-> FALSE, b |-> ""]
      ELSE [ok |-> TRUE, b |-> deflate(SubSeq(x, h + 1, h + CHOOSE k \in ks : TRUE))]

\* what a server answers: a status, the schema text json, sent as it is or
\* gzip-compressed with Content-Encoding: gzip; cut: reading the body fails
\* half way
Response(status, json, compressed, cut) ==
  [net |-> TRUE, status |-> status,
   encoding |-> IF compressed THEN "gzip" ELSE "",
   body |-> IF compressed THEN gzip(json) ELSE json, cut |-> cut]

NoResponse == [net |-> FALSE, status |-> 0, encoding |-> "", body |-> "", cut |-> FALSE]

\* the response as the default transport hands it over: it asks for gzip on
\* its own and decodes what it gets
viaDefaultTransport(resp) ==
  IF resp.net /\ resp.encoding = "gzip"
  THEN [resp EXCEPT !.encoding = "", !.body = gunzip(resp.body).b]
  ELSE resp

\* the bytes resp.Body yields before it ends or fails
received(resp) == IF resp.cut THEN prefix(resp.body, Len(resp.body) \div 2) ELSE resp.body

\* io.Writer: one that takes everything, or one that fails after room bytes
Writer(limit, room) == [limit |-> limit, room |-> room]

accepted(w, b) == IF w.limit THEN prefix(b, w.room) ELSE b

\* io.Copy(w, resp.Body)
ioCopy(resp, w) ==
  [bytes |-> accepted(w, received(resp)),
   ok |-> ~resp.cut /\ accepted(w, resp.body) = resp.body]

\* gz := gzip.NewWriter(w); defer gz.Close(); io.Copy(gz, resp.Body): the
\* first Write puts the header into w, the rest reaches w in Close, whose
\* error is dropped
gzipCopy(resp, w) ==
  [bytes |-> accepted(w, gzip(received(resp))),
   ok |-> ~resp.cut /\ (received(resp) = "" \/ accepted(w, gzipHeader) = gzipHeader)]

downloadFailed(msg, cause, old) ==
  [err |-> Error(msg, cause), written |-> "", file |-> old]

statusError(msg, status, old) ==
  downloadFailed(msg \o "HTTP " \o ToString(status), Null, old)

\* the end of a download that has copied c into the writer or the file
copied(c, msg, toFile) ==
  [err |-> IF c.ok THEN NoError ELSE Error(msg, Err("copy")),
   written |-> IF toFile THEN "" ELSE c.bytes,
   file |-> IF toFile THEN File(c.bytes) ELSE NoFile]

\* a download that creates the output file before it looks at the status
DownloadSchemaCreatingFirst(resp, outputPath, old) ==
  IF ~resp.net
  THEN downloadFailed("failed to download schema", Err("transport"), old)
  ELSE IF ~creatable(outputPath)
  THEN downloadFailed("failed to create output file", Err("create"), old)
  ELSE IF resp.status # StatusOK
  THEN statusError("failed to download schema: ", resp.status, File(""))
  ELSE copied(ioCopy(viaDefaultTransport(resp), Writer(FALSE, 0)),
              "failed to write schema", TRUE)

\* DownloadSchema(outputPath); old is the file at outputPath before the call
DownloadSchema(resp, outputPath, old) ==
  IF ~resp.net
  THEN downloadFailed("failed to download schema", Err("transport"), old)
  ELSE IF resp.status # StatusOK
  THEN statusError("failed to download schema: ", resp.status, old)
  ELSE IF ~creatable(outputPath)
  THEN downloadFailed("failed to create output file", Err("create"), old)
  ELSE copied(ioCopy(viaDefaultTransport(resp), Writer(FALSE, 0)),
              "failed to write schema", TRUE)

\* DownloadAndCompressSchema(outputPath): the transport does not decode
DownloadAndCompressSchema(resp, outputPath, old) ==
  IF ~resp.net
  THEN downloadFailed("failed to download schema", Err("transport"), old)
  ELSE IF resp.status # StatusOK
  THEN statusError("failed to download schema: ", resp.status, old)
  ELSE IF ~creatable(outputPath)
  THEN downloadFailed("failed to create output file", Err("create"), old)
  ELSE copied(ioCopy(resp, Writer(FALSE, 0)), "failed to write compressed schema", TRUE)

\* DownloadToWriter(w)
DownloadToWriter(resp, w) ==
  IF ~resp.net
  THEN downloadFailed("failed to download schema", Err("transport"), NoFile)
  ELSE IF resp.status # StatusOK
  THEN statusError("failed to download schema: ", resp.status, NoFile)
  ELSE copied(ioCopy(viaDefaultTransport(resp), w), "failed to write schema", FALSE)

\* DownloadAndCompressToWriter(w): the transport does not decode
DownloadAndCompressToWriter(resp, w) ==
  IF ~resp.net
  THEN downloadFailed("failed to download schema", Err("transport"), NoFile)
  ELSE IF resp.status # StatusOK
  THEN statusError("failed to download schema: ", resp.status, NoFile)
  ELSE IF resp.encoding # "gzip"
  THEN copied(gzipCopy(resp, w), "failed to write compressed schema", FALSE)
  ELSE copied(ioCopy(resp, w), "failed to write compressed schema", FALSE)

\* servers, writers and schema texts of the downloads
SchemaTexts == {"{\"data\":{}}", ""}

Responses ==
  {NoResponse}
    \cup {Response(st, j, z, cut) :
            st \in {StatusOK, 404}, j \in SchemaTexts, z \in BOOLEAN, cut \in BOOLEAN}

Writers == {Writer(FALSE, 0), Writer(TRUE, 0), Writer(TRUE, Len(gzipHeader))}

\* the download o with inputs a has returned r
Downloaded(o, a, r) ==
  /\ op' = o
  /\ arg' = a
  /\ ret' = Null
  /\ err' = r.err
  /\ ran' = FALSE
  /\ written' = r.written
  /\ UNCHANGED <<data, calls, schemas>>

DownloadSchemaCall ==
  /\ Idle
  /\ \E resp \in Responses, path \in Paths :
       LET r == DownloadSchema(resp, path, files[path])
       IN  /\ Downloaded("DownloadSchema", [resp |-> resp, path |-> path, old |-> files[path]], r)
           /\ files' = [files EXCEPT ![path] = r.file]

DownloadAndCompressSchemaCall ==
  /\ Idle
  /\ \E resp \in Responses, path \in Paths :
       LET r == DownloadAndCompressSchema(resp, path, files[path])
       IN  /\ Downloaded("DownloadAndCompressSchema",
                         [resp |-> resp, path |-> path, old |-> files[path]], r)
           /\ files' = [files EXCEPT ![path] = r.file]

DownloadToWriterCall ==
  /\ Idle
  /\ \E resp \in Responses, w \in Writers :
       Downloaded("DownloadToWriter", [resp |-> resp, w |-> w], DownloadToWriter(resp, w))
  /\ UNCHANGED files

DownloadAndCompressToWriterCall ==
  /\ Idle
  /\ \E resp \in Responses, w \in Writers :
       Downloaded("DownloadAndCompressToWriter", [resp |-> resp, w |-> w],
                  DownloadAndCompressToWriter(resp, w))
  /\ UNCHANGED files

(***************************************************************************)
(* Downloads by introspection (the package's download code that asks the   *)
(* GitHub API) and the download command.  token tells whether              *)
(* "gh auth token" has given a token.                                      *)
(***************************************************************************)
\* json.Unmarshal(body, &result), result a map[string]interface{}: an object
\* fills the map, null leaves it nil, anything else is an error
jsonUnmarshal(body) ==
  CASE Len(body) = 0 -> [ok |-> FALSE, result |-> Null]
    [] body = "null" -> [ok |-> TRUE, result |-> Null]
    [] Char(body, 1) = "{" ->
         [ok |-> decodedDocument(body, decodeValue(body, 1)).err = NoError,
          result |-> decodedDocument(body, decodeValue(body, 1)).v]
    [] OTHER -> [ok |-> FALSE, result |-> Null]

\* _, ok := result["errors"]
hasErrors(result) == result.t = "object" /\ "errors" \in DOMAIN result.o

\* io.ReadAll, json.Unmarshal and the check for "errors": the error that ends
\* the download, or none
validated(resp, old) ==
  IF resp.cut
  THEN downloadFailed("failed to read response", Err("read"), old)
  ELSE IF ~jsonUnmarshal(resp.body).ok
  THEN downloadFailed("failed to parse response as JSON", Err("json"), old)
  ELSE IF hasErrors(jsonUnmarshal(resp.body).result)
  THEN downloadFailed("GraphQL errors: ", Null, old)
  ELSE [err |-> NoError, written |-> "", file |-> old]

\* the steps every introspection download starts with: the token, the
\* request, the status; none when they have passed
requested(token, resp, old) ==
  IF ~token
  THEN downloadFailed("failed to get GitHub token (run 'gh auth login')", Err("exec"), old)
  ELSE IF ~resp.net
  THEN downloadFailed("failed to execute request", Err("transport"), old)
  ELSE IF resp.status # StatusOK
  THEN statusError("GitHub API returned ", resp.status, old)
  ELSE [err |-> NoError, written |-> "", file |-> old]

\* DownloadIntrospectionSchema(outputPath)
DownloadIntrospectionSchema(token, resp, outputPath, old) ==
  IF requested(token, resp, old).err # NoError THEN requested(token, resp, old)
  ELSE IF validated(viaDefaultTransport(resp), old).err # NoError
  THEN validated(viaDefaultTransport(resp), old)
  ELSE IF ~creatable(outputPath)
  THEN downloadFailed("failed to write file", Err("write"), old)
  ELSE [err |-> NoError, written |-> "", file |-> File(viaDefaultTransport(resp).body)]

\* DownloadIntrospectionToWriter(w)
DownloadIntrospectionToWriter(token, resp, w) ==
  IF requested(token, resp, NoFile).err # NoError THEN requested(token, resp, NoFile)
  ELSE copied(ioCopy(viaDefaultTransport(resp), w), "failed to write response", FALSE)

\* DownloadAndCompressSchema(outputPath) of the introspection downloads
DownloadAndCompressSchemaIntrospection(token, resp, outputPath, old) ==
  IF requested(token, resp, old).err # NoError THEN requested(token, resp, old)
  ELSE IF resp.encoding # "gzip"
  THEN IF validated(resp, old).err # NoError THEN validated(resp, old)
       ELSE IF ~creatable(outputPath)
       THEN downloadFailed("failed to create output file", Err("create"), old)
       ELSE [err |-> NoError, written |-> "", file |-> File(gzip(resp.body))]
  ELSE IF ~creatable(outputPath)
  THEN downloadFailed("failed to create output file", Err("create"), old)
  ELSE copied(ioCopy(resp, Writer(FALSE, 0)), "failed to write compressed data", TRUE)

\* DownloadAndCompressToWriter(w) of the introspection downloads
DownloadAndCompressToWriterIntrospection(token, resp, w) ==
  IF requested(token, resp, NoFile).err # NoError THEN requested(token, resp, NoFile)
  ELSE IF resp.encoding # "gzip"
  THEN copied(gzipCopy(resp, w), "failed to write compressed response", FALSE)
  ELSE copied(ioCopy(resp, w), "failed to write compressed response", FALSE)

\* answers of the API
APITexts == {"{\"data\":{}}", "{\"errors\":[1]}", "null", "[1]", "<html>", ""}

APIResponses ==
  {NoResponse, Response(404, "<html>", FALSE, FALSE), Response(StatusOK, "{\"data\":{}}", FALSE, TRUE)}
    \cup {Response(StatusOK, j, z, FALSE) : j \in APITexts, z \in BOOLEAN}

DownloadIntrospectionSchemaCall ==
  /\ Idle
  /\ \E token \in BOOLEAN, resp \in APIResponses, path \in Paths :
       LET r == DownloadIntrospectionSchema(token, resp, path, files[path])
       IN  /\ Downloaded("DownloadIntrospectionSchema",
                         [token |-> token, resp |-> resp, path |-> path, old |-> files[path]], r)
           /\ files' = [files EXCEPT ![path] = r.file]

\* strings.HasSuffix
hasSuffix(s, suffix) ==
  Len(s) >= Len(suffix) /\ SubSeq(s, Len(s) - Len(suffix) + 1, Len(s)) = suffix

\* a decision that looks at the flag only
compressByFlagOnly(compressFlag, outputFile) == compressFlag

\* compress := compressFlag, set for a file named *.gz
compressChosen(compressFlag, outputFile) ==
  compressFlag \/ (outputFile # "" /\ ~compressFlag /\ hasSuffix(outputFile, ".gz"))

\* slog.Info(msg, attrs...)
LogRecord(msg, attrs) == [msg |-> msg, attrs |-> attrs]

\* the record logged before a download into a file
logDownloading(outputFile, compress) ==
  LogRecord("Downloading schema via introspection",
            [endpoint |-> "https://api.github.com/graphql", output |-> outputFile,
             compress |-> compress])

\* the record logged after it; the size is the one os.Stat gives
logDownloaded(compressFlag, outputFile, compress, file) ==
  LogRecord("Schema downloaded successfully",
            IF compress /\ ~compressFlag
            THEN [file |-> outputFile, size_kb |-> Len(file.bytes), auto_compressed |-> TRUE]
            ELSE [file |-> outputFile, size_kb |-> Len(file.bytes)])

\* the end of RunE after the library call named called has returned r
ranDownload(compressFlag, outputFile, compress, called, r) ==
  [err |-> r.err, written |-> r.written, file |-> r.file, called |-> called,
   logs |-> IF outputFile = "" THEN <<>>
            ELSE IF r.err # NoError THEN <<logDownloading(outputFile, compress)>>
            ELSE <<logDownloading(outputFile, compress),
                   logDownloaded(compressFlag, outputFile, compress, r.file)>>]

\* downloadCmd.RunE with the flags --compress and --output; w is os.Stdout
downloadCmd(compressFlag, outputFile, token, resp, w, old) ==
  CASE outputFile = "" /\ compressChosen(compressFlag, outputFile) ->
         ranDownload(compressFlag, outputFile, TRUE, "DownloadAndCompressToWriter",
                     DownloadAndCompressToWriterIntrospection(token, resp, w))
    [] outputFile = "" /\ ~compressChosen(compressFlag, outputFile) ->
         ranDownload(compressFlag, outputFile, FALSE, "DownloadToWriter",
                     DownloadIntrospectionToWriter(token, resp, w))
    [] outputFile # "" /\ compressChosen(compressFlag, outputFile) ->
         ranDownload(compressFlag, outputFile, TRUE, "DownloadAndCompressSchema",
                     DownloadAndCompressSchemaIntrospection(token, resp, outputFile, old))
    [] OTHER ->
         ranDownload(compressFlag, outputFile, FALSE, "DownloadSchema",
                     DownloadIntrospectionSchema(token, resp, outputFile, old))

\* one run of "github-schema download"
DownloadCmdRun ==
  /\ Idle
  /\ \E compressFlag \in BOOLEAN, outputFile \in Paths \cup {""}, token \in BOOLEAN,
        resp \in APIResponses, w \in Writers :
       LET old == IF outputFile = "" THEN NoFile ELSE files[outputFile]
           r == downloadCmd(compressFlag, outputFile, token, resp, w, old)
       IN  /\ op' = "download"
           /\ arg' = [compress |-> compressFlag, output |-> outputFile, token |-> token,
                      resp |-> resp, w |-> w, old |-> old]
           /\ ret' = [called |-> r.called, logs |-> r.logs]
           /\ err' = r.err
           /\ ran' = FALSE
           /\ written' = r.written
           /\ files' = IF outputFile = "" THEN files
                       ELSE [files EXCEPT ![outputFile] = r.file]
  /\ UNCHANGED <<data, calls, schemas>>

\* no call pending or running, no Schema constructed but the one of data
NothingPending ==
  /\ op = "idle"
  /\ arg = Null
  /\ ret = Null
  /\ err = NoError
  /\ ran = FALSE
  /\ calls = [c \in CallIds |-> IdleCall]
  /\ schemas = <<>>
  /\ files = [p \in Paths |-> NoFile]
  /\ written = ""

Init ==
  /\ data \in Docs
  /\ NothingPending

Next == TypeCall \/ SearchCall \/ MutationCall \/ Return

Spec == Init /\ [][Next]_vars

\* ad-hoc expressions through Query, over a few documents
QueryDocs == {Doc(<<>>), Doc(<<Repository>>), Obj([data |-> Null])}

InitQuery ==
  /\ data \in QueryDocs
  /\ NothingPending

NextQuery == QueryCall \/ PipelineQueryCall \/ RunQueryCall \/ Return

SpecQuery == InitQuery /\ [][NextQuery]_vars

\* formatType over type references
InitFormat ==
  /\ data = Doc(<<>>)
  /\ NothingPending

NextFormat == FormatTypeCall \/ MutationFormatTypeCall \/ Return

SpecFormat == InitFormat /\ [][NextFormat]_vars

\* the field search and the implementers lookup over documents
InitLookup ==
  /\ data \in LookupDocs
  /\ NothingPending

NextLookup == FieldSearchCall \/ ImplementersCall \/ Return

SpecLookup == InitLookup /\ [][NextLookup]_vars

\* Schemas constructed from byte buffers
InitLoad ==
  /\ data = Doc(<<>>)
  /\ NothingPending

NextLoad == NewWithDataCall \/ TypeOnCall \/ Return

SpecLoad == InitLoad /\ [][NextLoad]_vars

\* calls of MaxCalls goroutines on one Schema
InitShared ==
  /\ data \in SharedDocs
  /\ NothingPending

NextShared == \E c \in CallIds : Begin(c) \/ IterNext(c) \/ Release(c)

SpecShared == InitShared /\ [][NextShared]_vars

\* calls that may be cancelled; every goroutine that can take a step takes
\* it, and every caller takes the result of a call that has returned
InitCancel ==
  /\ data \in SharedDocs
  /\ NothingPending

NextCancel ==
  \E c \in CallIds : BeginCancellable(c) \/ IterNext(c) \/ Cancel(c) \/ Release(c)

SpecCancel ==
  /\ InitCancel
  /\ [][NextCancel]_vars
  /\ \A c \in CallIds : WF_vars(IterNext(c)) /\ WF_vars(Release(c))

\* downloads from github/docs, into writers and into files of a directory
\* that may hold an older schema.json
InitDownload ==
  /\ data = Doc(<<>>)
  /\ op = "idle" /\ arg = Null /\ ret = Null /\ err = NoError /\ ran = FALSE
  /\ calls = [c \in CallIds |-> IdleCall]
  /\ schemas = <<>>
  /\ files \in {[p \in Paths |-> NoFile],
                [p \in Paths |-> IF p = "schema.json" THEN File("old") ELSE NoFile]}
  /\ written = ""

NextDownload ==
  \/ DownloadSchemaCall \/ DownloadAndCompressSchemaCall
  \/ DownloadToWriterCall \/ DownloadAndCompressToWriterCall
  \/ Return

SpecDownload == InitDownload /\ [][NextDownload]_vars

\* downloads by introspection and runs of the download command
NextCommand == DownloadIntrospectionSchemaCall \/ DownloadCmdRun \/ Return

SpecCommand == InitDownload /\ [][NextCommand]_vars

(***************************************************************************)
(* Properties.                                                             *)
(***************************************************************************)
\* the stream the engine produces for the ad-hoc expression of the last call
Produced ==
  CASE arg.expr.q = "$x" -> <<arg.variables.m["$x"]>>
    [] arg.expr.q = "[$x, $y]" -> <<Arr(<<arg.variables.m["$x"], arg.variables.m["$y"]>>)>>
    [] OTHER -> arg.expr.out

NoErrorIn(s) == \A i \in 1..Len(s) : ~IsErr(s[i])

\* C1: when the evaluation of an expression produces values only, Query
\* returns nil for zero values, the value itself for exactly one value, and
\* the list of the values in production order for two or more.
C1_CollapsingLaw ==
  (op \in {"Query", "PipelineQuery"} /\ ran /\ NoErrorIn(Produced)) =>
    /\ err = NoError
    /\ Len(Produced) = 0 => ret = Null
    /\ Len(Produced) = 1 => (ret = Produced[1] /\ ret # Arr(Produced))
    /\ Len(Produced) >= 2 => ret = Arr(Produced)

C1_Witness ==
  /\ op = "Query"
  /\ ran
  /\ Produced = <<Str("a"), Null, Str("a")>>
  /\ ret = Arr(<<Str("a"), Null, Str("a")>>)

\* the type list of a document that has one
HasTypeList(d) ==
  /\ d.t = "object" /\ "data" \in DOMAIN d.o /\ d.o.data.t = "object"
  /\ "__schema" \in DOMAIN d.o.data.o /\ d.o.data.o.__schema.t = "object"
  /\ "types" \in DOMAIN d.o.data.o.__schema.o
  /\ d.o.data.o.__schema.o.types.t = "array"

TypeList(d) == d.o.data.o.__schema.o.types.a

\* the members of the type list that carry the name n
Named(d, n) == SelectSeq(TypeList(d), LAMBDA t : t.o.name = Str(n))

\* the expression and the variables the last named call hands to Query
CallExpr ==
  CASE op = "Type" -> typeQueryExpr
    [] op = "Search" -> searchQueryExpr
    [] op = "Mutation" -> mutationQueryExpr

CallVariables ==
  CASE op = "Type" -> Variables("$type" :> Str(arg.name))
    [] op = "Search" -> Variables("$pattern" :> Str(arg.pattern))
    [] op = "Mutation" -> Variables("$mutation" :> Str(arg.name))

\* C2: Type, Search and Mutation return a nil map and "no results found"
\* whenever the underlying Query collapses to nil; Type for a name that no
\* member of the type list carries returns that error.
C2_NoResultsFound ==
  (op \in {"Type", "Search", "Mutation"}) =>
    LET q == Query(data, CallExpr, CallVariables)
    IN  /\ (q = [ret |-> Null, err |-> NoError, ran |-> TRUE]) =>
              (ret = Null /\ err = Error("no results found", Null))
        /\ (op = "Type" /\ HasTypeList(data) /\ Len(Named(data, arg.name)) = 0) =>
              (ret = Null /\ err = Error("no results found", Null))

C2_Witness ==
  /\ op = "Type"
  /\ arg.name = "Zzz"
  /\ HasTypeList(data)
  /\ Len(TypeList(data)) = MaxTypes
  /\ ret = Null
  /\ err = Error("no results found", Null)

\* C3: when a produced value is an error signal, Query returns a nil result
\* and an error wrapping the first signal, whatever was produced before it.
C3_ErrorDiscardsResults ==
  (op = "Query" /\ ran /\ ~NoErrorIn(Produced)) =>
    /\ ret = Null
    /\ err = Error("jq execution error", FirstErr(Produced))

C3_Witness ==
  /\ op = "Query"
  /\ ran
  /\ Len(Produced) >= 2
  /\ ~IsErr(Produced[1])
  /\ IsErr(Produced[2])
  /\ ret = Null
  /\ err # NoError

RECURSIVE InsideOut(_, _, _)
InsideOut(ws, i, text) ==
  IF i = 0 THEN text
  ELSE InsideOut(ws, i - 1,
                 IF ws[i] = "NON_NULL" THEN text \o "!" ELSE "[" \o text \o "]")

\* C5: for a chain of NON_NULL and LIST wrappers around a node with a name T,
\* formatType returns the text built inside-out from T;
\* NON_NULL(LIST(NON_NULL(T))) gives "[T!]!".
C5_FormatTypeChain ==
  (op \in {"formatType", "mutationFormatType"}
     /\ arg.inner.t = "object" /\ arg.inner.o.name.t = "string") =>
    /\ ret = Str(InsideOut(arg.wrappers, Len(arg.wrappers), arg.inner.o.name.s))
    /\ (arg.wrappers = <<"NON_NULL", "LIST", "NON_NULL">>
          /\ arg.inner = NamedRef("OBJECT", "T")) => ret = Str("[T!]!")

C5_Witness ==
  /\ op = "formatType"
  /\ arg.wrappers = <<"NON_NULL", "LIST", "NON_NULL">>
  /\ arg.inner = NamedRef("OBJECT", "T")
  /\ ret = Str("[T!]!")

\* a well-formed type reference as its wrappers, outermost first, and its name
RECURSIVE WrappersOf(_)
WrappersOf(ref) ==
  IF ref.o.kind \in {Str("NON_NULL"), Str("LIST")}
  THEN <<ref.o.kind.s>> \o WrappersOf(ref.o.ofType)
  ELSE <<>>

RECURSIVE NameOf(_)
NameOf(ref) ==
  IF ref.o.kind \in {Str("NON_NULL"), Str("LIST")} THEN NameOf(ref.o.ofType)
  ELSE ref.o.name.s

\* the formatted type of a well-formed type reference
Rendered(ref) == Str(InsideOut(WrappersOf(ref), Len(WrappersOf(ref)), NameOf(ref)))

IsList(t, k) == k \in DOMAIN t.o /\ t.o[k].t = "array"

\* the last call was Type for a name that exactly one member of the type list
\* carries
TypeOfOne == op = "Type" /\ HasTypeList(data) /\ Len(Named(data, arg.name)) = 1

\* C6: Type for a name carried by exactly one type returns {type: ...} with
\* that type's name, kind and description and, for a type with a fields list,
\* one entry per field in source order with the field's name and formatted
\* type (id: NON_NULL(SCALAR ID) gives "ID!"), arguments null for a field
\* without args and one formatted entry per arg in order otherwise.
C6_TypeFields ==
  TypeOfOne =>
    LET t == Named(data, arg.name)[1]
    IN  /\ err = NoError
        /\ ret.t = "object"
        /\ DOMAIN ret.o = {"type"}
        /\ ret.o.type.o.name = t.o.name
        /\ ret.o.type.o.kind = t.o.kind
        /\ ret.o.type.o.description = t.o.description
        /\ IsList(t, "fields") =>
             /\ ret.o.type.o.fields.t = "array"
             /\ Len(ret.o.type.o.fields.a) = Len(t.o.fields.a)
             /\ \A i \in 1..Len(t.o.fields.a) :
                  LET f == t.o.fields.a[i]
                      e == ret.o.type.o.fields.a[i].o
                  IN  /\ e.name = f.o.name
                      /\ e.type = Rendered(f.o.type)
                      /\ (f.o.name = Str("id") /\ f.o.type = NonNull(NamedRef("SCALAR", "ID")))
                           => e.type = Str("ID!")
                      /\ Len(f.o.args.a) = 0 => e.arguments = Null
                      /\ Len(f.o.args.a) > 0 =>
                           /\ e.arguments.t = "array"
                           /\ Len(e.arguments.a) = Len(f.o.args.a)
                           /\ \A j \in 1..Len(f.o.args.a) :
                                /\ e.arguments.a[j].o.name = f.o.args.a[j].o.name
                                /\ e.arguments.a[j].o.type = Rendered(f.o.args.a[j].o.type)

C6_Witness ==
  /\ TypeOfOne
  /\ arg.name = "Repository"
  /\ err = NoError
  /\ Len(ret.o.type.o.fields.a) = 2
  /\ ret.o.type.o.fields.a[1].o.name = Str("id")
  /\ ret.o.type.o.fields.a[1].o.type = Str("ID!")
  /\ ret.o.type.o.fields.a[1].o.arguments = Null
  /\ Len(ret.o.type.o.fields.a[2].o.arguments.a) = 2

TypeLists == {"fields", "inputFields", "enumValues"}

\* C7: in the Type result each of fields, inputFields and enumValues is null
\* exactly when the source type lacks the property or has it null, and is a
\* list with one entry per source element otherwise, each on its own.
C7_NullWhenAbsent ==
  TypeOfOne =>
    LET t == Named(data, arg.name)[1]
    IN  /\ err = NoError
        /\ \A k \in TypeLists :
             LET absent == k \notin DOMAIN t.o \/ t.o[k] = Null
             IN  /\ (ret.o.type.o[k] = Null) <=> absent
                 /\ ~absent => /\ ret.o.type.o[k].t = "array"
                               /\ Len(ret.o.type.o[k].a) = Len(t.o[k].a)

C7_Witness ==
  /\ TypeOfOne
  /\ Named(data, arg.name)[1] = Thing("null", "list", "empty")
  /\ ret.o.type.o.fields = Null
  /\ Len(ret.o.type.o.inputFields.a) = 2
  /\ ret.o.type.o.enumValues = Arr(<<>>)

\* the fields called n of the types called Mutation
MutationFields(d, n) ==
  LET ms == Named(d, "Mutation")
  IN  Flatten([i \in 1..Len(ms) |->
        SelectSeq(ms[i].o.fields.a, LAMBDA f : f.o.name = Str(n))])

RootNonNull(v) == Bool(v.o.type.o.kind = Str("NON_NULL"))

\* C8: the required flag of every input descriptor is true exactly when the
\* root of the type reference of its input field or argument has kind
\* NON_NULL: for inputFields of Type and for inputs of Mutation, whichever
\* branch built them.
C8_RequiredIsRootNonNull ==
  /\ (TypeOfOne /\ err = NoError /\ ret.o.type.o.inputFields # Null) =>
       LET t == Named(data, arg.name)[1]
       IN  \A i \in 1..Len(ret.o.type.o.inputFields.a) :
             ret.o.type.o.inputFields.a[i].o.required = RootNonNull(t.o.inputFields.a[i])
  /\ (op = "Mutation" /\ err = NoError) =>
       LET f == MutationFields(data, arg.name)[1]
           inputs == ret.o.mutation.o.inputs.a
       IN  \A i \in 1..Len(inputs) :
             /\ inputs[i].o.name = f.o.args.a[i].o.name
             /\ inputs[i].o.required = RootNonNull(f.o.args.a[i])

C8_Witness ==
  /\ op = "Mutation"
  /\ arg.name = "updateIssue"
  /\ err = NoError
  /\ Len(ret.o.mutation.o.inputs.a) = 2
  /\ MutationFields(data, arg.name)[1].o.args.a[2].o.type = ListOf(NonNull(IDRef))
  /\ ret.o.mutation.o.inputs.a[2].o.required = Bool(FALSE)

\* every member of the type list has a string for a name
NamesAreStrings(d) == \A i \in 1..Len(TypeList(d)) : TypeList(d)[i].o.name.t = "string"

\* the members of the type list whose name matches the pattern, ignoring case
Matching(d, pattern) ==
  SelectSeq(TypeList(d), LAMBDA t : RegexMatch(t.o.name.s, pattern, TRUE))

\* C9: Search returns one object {count, pattern, results}: results are the
\* types whose name matches the pattern ignoring case, in document order,
\* count is the length of results and pattern is the input.
C9_SearchShape ==
  (op = "Search" /\ HasTypeList(data) /\ NamesAreStrings(data) /\ RegexValid(arg.pattern)) =>
    LET m == Matching(data, arg.pattern)
    IN  /\ err = NoError
        /\ ret.t = "object"
        /\ DOMAIN ret.o = {"count", "pattern", "results"}
        /\ ret.o.results.t = "array"
        /\ Len(ret.o.results.a) = Len(m)
        /\ \A i \in 1..Len(m) :
             /\ ret.o.results.a[i].o.name = m[i].o.name
             /\ ret.o.results.a[i].o.kind = m[i].o.kind
        /\ ret.o.count = Num(Len(ret.o.results.a))
        /\ ret.o.pattern = Str(arg.pattern)

C9_Witness ==
  /\ op = "Search"
  /\ arg.pattern = "review"
  /\ err = NoError
  /\ HasTypeList(data)
  /\ TypeList(data) = <<ReviewThread, IssueState, ReviewThread>>
  /\ ret.o.count = Num(2)
  /\ Len(ret.o.results.a) = 2
  /\ ret.o.results.a[1].o.name = Str("ReviewThread")
  /\ ret.o.pattern = Str("review")

\* C10: in Search results a description of at most 100 characters is
\* unchanged, a null description stays null, and one of 101 or more is its
\* first 100 characters followed by "...".
C10_Truncation ==
  (op = "Search" /\ err = NoError /\ HasTypeList(data)) =>
    LET m == Matching(data, arg.pattern)
    IN  \A i \in 1..Len(ret.o.results.a) :
          LET d == m[i].o.description
              e == ret.o.results.a[i].o.description
          IN  /\ d = Null => e = Null
              /\ (d.t = "string" /\ Len(d.s) <= 100) => e = d
              /\ (d.t = "string" /\ Len(d.s) >= 101) =>
                   e = Str(SubSeq(d.s, 1, 100) \o "...")

C10_Witness ==
  /\ op = "Search"
  /\ err = NoError
  /\ HasTypeList(data)
  /\ TypeList(data) = <<Repository, IssueState, CreateIssueInput>>
  /\ Len(ret.o.results.a) = 3
  /\ Len(Repository.o.description.s) = 100
  /\ ret.o.results.a[1].o.description = Repository.o.description
  /\ Len(IssueState.o.description.s) = 101
  /\ ret.o.results.a[2].o.description = Str(TextOfLen(100) \o "...")
  /\ ret.o.results.a[3].o.description = Null

\* the lines of a text: the pieces between its line feeds, in order
LineStarts(s) == {1} \cup {i + 1 : i \in {j \in 1..Len(s) : SubSeq(s, j, j) = "\n"}}

LineAt(s, p) ==
  LET ends == {j \in p..Len(s) : SubSeq(s, j, j) = "\n"}
  IN  SubSeq(s, p, IF ends = {} THEN Len(s)
                   ELSE (CHOOSE j \in ends : \A k \in ends : j <= k) - 1)

Lines(s) ==
  LET starts == LineStarts(s)
      nth(k) == CHOOSE p \in starts : Cardinality({q \in starts : q < p}) = k - 1
  IN  [k \in 1..Cardinality(starts) |-> LineAt(s, nth(k))]

\* the lines that begin a bullet
BulletLines(s) == SelectSeq(Lines(s), LAMBDA l : Len(l) >= 2 /\ SubSeq(l, 1, 2) = "- ")

\* "- <name>: <formatted type>", with " (required)" for a root of kind NON_NULL
BulletLine(f) ==
  "- " \o f.o.name.s \o ": " \o Rendered(f.o.type).s
       \o (IF f.o.type.o.kind = Str("NON_NULL") THEN " (required)" ELSE "")

\* the last call was Mutation for a name that exactly one field of the one
\* type called Mutation carries
MutationOfOne ==
  /\ op = "Mutation" /\ HasTypeList(data)
  /\ Len(Named(data, "Mutation")) = 1
  /\ IsList(Named(data, "Mutation")[1], "fields")
  /\ Len(MutationFields(data, arg.name)) = 1

\* the first argument of the field is NON_NULL around a named input object
\* that exactly one member of the type list is
FirstArgIsInputObject(d, f) ==
  /\ Len(f.o.args.a) > 0
  /\ f.o.args.a[1].o.type.o.kind = Str("NON_NULL")
  /\ f.o.args.a[1].o.type.o.ofType.t = "object"
  /\ f.o.args.a[1].o.type.o.ofType.o.kind = Str("INPUT_OBJECT")
  /\ f.o.args.a[1].o.type.o.ofType.o.name.t = "string"
  /\ Len(Named(d, f.o.args.a[1].o.type.o.ofType.o.name.s)) = 1
  /\ IsList(Named(d, f.o.args.a[1].o.type.o.ofType.o.name.s)[1], "inputFields")

\* C11: when the first argument of the named Mutation field is NON_NULL around
\* a named input object of the document, Mutation returns exactly one input
\* descriptor, for that argument, and the bullet lines of its description are
\* "- <name>: <formatted type>", one per input field in source order, with
\* " (required)" on exactly those whose type has root kind NON_NULL.
C11_ExpandedBullets ==
  (MutationOfOne /\ FirstArgIsInputObject(data, MutationFields(data, arg.name)[1])) =>
    LET f == MutationFields(data, arg.name)[1]
        a0 == f.o.args.a[1]
        fs == Named(data, a0.o.type.o.ofType.o.name.s)[1].o.inputFields.a
    IN  /\ err = NoError
        /\ ret.o.mutation.o.inputs.t = "array"
        /\ Len(ret.o.mutation.o.inputs.a) = 1
        /\ ret.o.mutation.o.inputs.a[1].o.name = a0.o.name
        /\ ret.o.mutation.o.inputs.a[1].o.description.t = "string"
        /\ BulletLines(ret.o.mutation.o.inputs.a[1].o.description.s)
             = [i \in 1..Len(fs) |-> BulletLine(fs[i])]

C11_Witness ==
  /\ MutationOfOne
  /\ arg.name = "createIssue"
  /\ FirstArgIsInputObject(data, MutationFields(data, arg.name)[1])
  /\ err = NoError
  /\ BulletLines(ret.o.mutation.o.inputs.a[1].o.description.s)
       = <<"- repositoryId: ID! (required)", "- title: String", "- labelIds: [ID!]">>

\* the type one ofType layer below the type of the first argument of f is a
\* named INPUT_OBJECT that a member of the type list is
FirstArgResolves(d, f) ==
  /\ Len(f.o.args.a) > 0
  /\ f.o.args.a[1].o.type.o.ofType.t = "object"
  /\ f.o.args.a[1].o.type.o.ofType.o.name.t = "string"
  /\ \E i \in 1..Len(TypeList(d)) :
       /\ TypeList(d)[i].o.name = f.o.args.a[1].o.type.o.ofType.o.name
       /\ TypeList(d)[i].o.kind = Str("INPUT_OBJECT")

\* C12: when the first argument of the named Mutation field does not resolve,
\* one ofType layer down, to a named input object of the document (it wraps
\* the scalar ID, or names a type the type list lacks), Mutation returns one
\* input descriptor per declared argument, in declaration order, with the
\* argument's name, formatted type, own description and required flag.
C12_PerArgumentWhenUnresolved ==
  (MutationOfOne /\ ~FirstArgResolves(data, MutationFields(data, arg.name)[1])) =>
    LET as == MutationFields(data, arg.name)[1].o.args.a
    IN  /\ err = NoError
        /\ ret.o.mutation.o.inputs.t = "array"
        /\ Len(ret.o.mutation.o.inputs.a) = Len(as)
        /\ \A i \in 1..Len(as) :
             /\ ret.o.mutation.o.inputs.a[i].o.name = as[i].o.name
             /\ ret.o.mutation.o.inputs.a[i].o.type = Rendered(as[i].o.type)
             /\ ret.o.mutation.o.inputs.a[i].o.description = as[i].o.description
             /\ ret.o.mutation.o.inputs.a[i].o.required = RootNonNull(as[i])

\* C13: Mutation returns a nil map and "no results found" when no field of a
\* type called Mutation carries the name, also when the type list has no type
\* called Mutation; a descriptor it returns is built from a field of that name.
C13_MutationNotFound ==
  (op = "Mutation" /\ HasTypeList(data)) =>
    /\ Len(MutationFields(data, arg.name)) = 0 =>
         (ret = Null /\ err = Error("no results found", Null))
    /\ err = NoError =>
         /\ Len(MutationFields(data, arg.name)) > 0
         /\ ret.o.mutation.o.name = Str(arg.name)
         /\ ret.o.mutation.o.description = MutationFields(data, arg.name)[1].o.description

C13_Witness ==
  /\ op = "Mutation"
  /\ arg.name = "nope"
  /\ HasTypeList(data)
  /\ Len(Named(data, "Mutation")) = 1
  /\ Len(Named(data, "Mutation")[1].o.fields.a) = 5
  /\ ret = Null
  /\ err = Error("no results found", Null)

\* C14: Query binds to every name k the value variables[k], whatever the
\* order in which the map yields its keys: "$x" evaluates to variables["$x"]
\* and "[$x, $y]" to the list of variables["$x"] and variables["$y"], so two
\* maps of the same pairs give the same result.
C14_BoundByName ==
  (op = "Query") =>
    /\ (ran /\ arg.expr.q = "$x") => (err = NoError /\ ret = arg.variables.m["$x"])
    /\ (ran /\ arg.expr.q = "[$x, $y]") =>
         (err = NoError /\ ret = Arr(<<arg.variables.m["$x"], arg.variables.m["$y"]>>))
    /\ Len(arg.variables.range) = 2 =>
         Query(data, arg.expr,
               Ranged(arg.variables.m, <<arg.variables.range[2], arg.variables.range[1]>>))
           = [ret |-> ret, err |-> err, ran |-> ran]

C14_Witness ==
  /\ op = "Query"
  /\ ran
  /\ arg.expr.q = "[$x, $y]"
  /\ arg.variables.range = <<"$y", "$x">>
  /\ ret = Arr(<<Str("v"), Str("w")>>)

\* what a call returns when it runs alone on the document d
AloneReturn(d, o, a) ==
  CASE o = "Type" -> Type(d, a.name)
    [] o = "Search" -> Search(d, a.pattern)
    [] o = "Mutation" -> Mutation(d, a.name)
    [] o = "Query" -> Query(d, a.expr, a.variables)
    [] o = "PipelineQuery" -> PipelineQuery(d, a.expr, a.variables)

\* calls that have returned for the same inputs have returned the same
RepeatsAgree ==
  \A c1, c2 \in CallIds :
    (calls[c1].pc = "done" /\ calls[c2].pc = "done"
       /\ calls[c1].op = calls[c2].op /\ calls[c1].arg = calls[c2].arg) =>
      (calls[c1].ret = calls[c2].ret /\ calls[c1].err = calls[c2].err)

C16_AsWhenAlone ==
  \A c \in CallIds :
    /\ calls[c].pc = "done" =>
         /\ calls[c].ret = AloneReturn(data, calls[c].op, calls[c].arg).ret
         /\ calls[c].err = AloneReturn(data, calls[c].op, calls[c].arg).err
    /\ calls[c].pc = "run" =>
         calls[c].results
           = SubSeq(iterOf(data, calls[c].op, calls[c].arg), 1, calls[c].taken)

C16_Witness ==
  /\ calls[1].pc = "run" /\ calls[1].taken = 1 /\ calls[1].op = "PipelineQuery"
  /\ calls[2].pc = "done" /\ calls[2].op = "Query"
  /\ calls[2].ret = Arr(<<Str("a"), Null>>)

\* the byte buffers that are JSON documents
JSONDocuments ==
  {"{\"data\":{\"__schema\":{\"types\":[]}}}",
   "{\"data\":{\"__schema\":{\"types\":[{\"name\":\"T\",\"kind\":\"SCALAR\"}]}}}",
   "{\"data\":null}", "null"}

\* C17: NewWithData returns a nil Schema and an error for bytes that are no
\* JSON document; a load that fails leaves the Schemas constructed before as
\* they are, and a load that succeeds adds a Schema of its own and leaves
\* the others as they are.
C17_LoadFailsOnNonJSON ==
  [][(op' = "NewWithData") =>
       /\ (arg'.bytes \notin JSONDocuments) => (ret' = Null /\ err' # NoError)
       /\ (err' # NoError) => (ret' = Null /\ schemas' = schemas)
       /\ (err' = NoError) =>
            (Len(schemas') = Len(schemas) + 1 /\ SubSeq(schemas', 1, Len(schemas)) = schemas)]_vars

\* the fields of the type t whose name matches the pattern, ignoring case
FieldMatches(t, pattern) ==
  IF IsList(t, "fields")
  THEN SelectSeq(t.o.fields.a, LAMBDA f : RegexMatch(f.o.name.s, pattern, TRUE))
  ELSE <<>>

\* the members of the type list that have such a field
KeptTypes(d, pattern) ==
  SelectSeq(TypeList(d), LAMBDA t : Len(FieldMatches(t, pattern)) > 0)

FieldSearchDone ==
  op = "FieldSearch" /\ HasTypeList(data) /\ RegexValid(arg.pattern)

\* C18: the type text the field search emits for a matched field is what
\* formatType gives for the type reference of that field, whatever the
\* nesting of NON_NULL and LIST.
C18_FieldTypeIsFormatType ==
  (FieldSearchDone /\ err = NoError) =>
    \A k \in 1..Len(ret.a) :
      \A j \in 1..Len(ret.a[k].o.fields.a) :
        ret.a[k].o.fields.a[j].o.type
          = formatType(FieldMatches(KeptTypes(data, arg.pattern)[k], arg.pattern)[j].o.type)

\* C19: the field search returns one group per type that has a field whose
\* name matches the pattern ignoring case, and no other group: the groups in
\* document order, each with the type's name and kind and its matching fields
\* in source order; types without a fields list or a matching field have none.
C19_GroupsOfMatches ==
  FieldSearchDone =>
    /\ err = NoError
    /\ ret.t = "array"
    /\ Len(ret.a) = Len(KeptTypes(data, arg.pattern))
    /\ \A k \in 1..Len(ret.a) :
         LET t == KeptTypes(data, arg.pattern)[k]
             g == ret.a[k].o
         IN  /\ g.type = t.o.name
             /\ g.kind = t.o.kind
             /\ Len(g.fields.a) > 0
             /\ Len(g.fields.a) = Len(FieldMatches(t, arg.pattern))
             /\ \A j \in 1..Len(g.fields.a) :
                  /\ g.fields.a[j].o.name = FieldMatches(t, arg.pattern)[j].o.name
                  /\ g.fields.a[j].o.description
                       = FieldMatches(t, arg.pattern)[j].o.description

C19_Witness ==
  /\ FieldSearchDone
  /\ arg.pattern = "issue"
  /\ TypeList(data) = <<Repository, ReviewThread, MutationType>>
  /\ err = NoError
  /\ Len(ret.a) = 2
  /\ ret.a[1].o.type = Str("Repository")
  /\ Len(ret.a[1].o.fields.a) = 1
  /\ ret.a[2].o.type = Str("Mutation")
  /\ Len(ret.a[2].o.fields.a) = 3

\* {interface, implementers} as the lookup is to give it for the type t
ImplementersOf(t) ==
  Obj([interface |-> t.o.name,
       implementers |->
         IF IsList(t, "possibleTypes")
         THEN Arr([i \in 1..Len(t.o.possibleTypes.a) |-> t.o.possibleTypes.a[i].o.name])
         ELSE Arr(<<>>)])

\* C20: the implementers lookup yields, for each type that carries the name,
\* {interface: name, implementers: L}, L being the names of its possibleTypes
\* in source order, and the empty list when possibleTypes is missing or null;
\* for a name no type carries it yields nothing.
C20_Implementers ==
  (op = "Implementers" /\ HasTypeList(data)) =>
    LET ts == Named(data, arg.name)
    IN  /\ err = NoError
        /\ Len(ts) = 0 => ret = Null
        /\ Len(ts) = 1 => ret = ImplementersOf(ts[1])
        /\ Len(ts) >= 2 => ret = Arr([k \in 1..Len(ts) |-> ImplementersOf(ts[k])])

C20_Witness ==
  /\ op = "Implementers"
  /\ HasTypeList(data)
  /\ arg.name = "Node"
  /\ TypeList(data) = <<Repository, Node, Lonely>>
  /\ ret = Obj([interface |-> Str("Node"),
                implementers |-> Arr(<<Str("Repository"), Str("Issue")>>)])

\* the expression of the last call with nothing produced
ProducingNothing == Expr("adhoc", TRUE, arg.expr.refs, <<>>)

\* C21: a Query whose expression produces exactly one value, JSON null,
\* returns the same (nil, nil) as a Query whose expression produces no value,
\* and runQuery turns both into the same "no results found" error.
C21_NullAsEmpty ==
  (op \in {"Query", "runQuery"} /\ ran /\ Produced = <<Null>>) =>
    /\ op = "Query" =>
         /\ ret = Null /\ err = NoError
         /\ Query(data, ProducingNothing, arg.variables) =
              [ret |-> ret, err |-> err, ran |-> ran]
    /\ op = "runQuery" =>
         /\ ret = Null /\ err = Error("no results found", Null)
         /\ runQuery(data, ProducingNothing, arg.variables) =
              [ret |-> ret, err |-> err, ran |-> ran]

C21_Witness ==
  /\ op = "runQuery"
  /\ ran
  /\ arg.expr.out = <<Null>>
  /\ arg.expr.q = "adhoc"
  /\ err = Error("no results found", Null)

\* C25: formatType of a terminal object node (kind neither NON_NULL nor
\* LIST) is its name when the name is a string and its kind when the name is
\* null; formatType of a string, number, boolean or null is that value, so
\* wrappers around a null ofType format the null and do not fail.
C25_FormatTypeTerminal ==
  (op = "formatType") =>
    /\ (arg.wrappers = <<>> /\ arg.inner.t = "object") =>
         /\ arg.inner.o.name.t = "string" => ret = arg.inner.o.name
         /\ arg.inner.o.name = Null => ret = arg.inner.o.kind
    /\ (arg.wrappers = <<>> /\ arg.inner.t # "object") => ret = arg.inner
    /\ (arg.inner = Null) =>
         /\ ~IsErr(ret)
         /\ arg.wrappers # <<>> =>
              ret = Str(InsideOut(arg.wrappers, Len(arg.wrappers), ""))

C25_Witness ==
  /\ op = "formatType"
  /\ arg.wrappers = <<>>
  /\ arg.inner = Obj([kind |-> Str("SCALAR"), name |-> Null, ofType |-> Null])
  /\ ret = Str("SCALAR")

\* what Query returned inside the last named call
CallQuery == Query(data, CallExpr, CallVariables)

\* C27: every runQuery call returns either a non-nil map with a nil error or
\* a nil map with a non-nil error; when the collapsed Query result is not an
\* object the error is "unexpected result type", which is what Type returns
\* when two types of the document carry the requested name.
C27_MapOrError ==
  (op \in {"Type", "Search", "Mutation"}) =>
    /\ \/ (ret # Null /\ ret.t = "object" /\ err = NoError)
       \/ (ret = Null /\ err # NoError)
    /\ (CallQuery.err = NoError /\ CallQuery.ret.t \notin {"null", "object"}) =>
         (ret = Null /\ err = Error("unexpected result type", Null))
    /\ (op = "Type" /\ HasTypeList(data) /\ Len(Named(data, arg.name)) >= 2) =>
         (ret = Null /\ err = Error("unexpected result type", Null))

C27_Witness ==
  /\ op = "Type"
  /\ arg.name = "Repository"
  /\ HasTypeList(data)
  /\ Len(Named(data, "Repository")) = 2
  /\ Len(TypeList(data)) = 3
  /\ ret = Null
  /\ err = Error("unexpected result type", Null)

\* C28: Search never returns "no results found"; for a pattern that matches
\* no type name of a document whose types all have string names it returns
\* the object {count: 0, pattern: <input>, results: []}.
C28_SearchWithoutMatch ==
  (op = "Search") =>
    /\ err # Error("no results found", Null)
    /\ (HasTypeList(data) /\ NamesAreStrings(data) /\ RegexValid(arg.pattern)
          /\ Len(Matching(data, arg.pattern)) = 0) =>
         /\ err = NoError
         /\ ret = Obj([count |-> Num(0), pattern |-> Str(arg.pattern),
                       results |-> Arr(<<>>)])

C28_Witness ==
  /\ op = "Search"
  /\ arg.pattern = "Zzz"
  /\ HasTypeList(data)
  /\ Len(TypeList(data)) = 2
  /\ NamesAreStrings(data)
  /\ ret = Obj([count |-> Num(0), pattern |-> Str("Zzz"), results |-> Arr(<<>>)])

\* the first argument carries a named type without a wrapper
FirstArgIsNullableNamed(f) ==
  /\ Len(f.o.args.a) > 0
  /\ f.o.args.a[1].o.type.o.kind \notin {Str("NON_NULL"), Str("LIST")}
  /\ f.o.args.a[1].o.type.o.name.t = "string"

\* C29: Mutation for an existing field without arguments returns the mutation
\* object with the field's name and description and an empty inputs list; for
\* a field whose first argument has a named type without a wrapper it returns
\* one input descriptor per argument, the first with required = false.
C29_ZeroArgsAndNullableFirst ==
  MutationOfOne =>
    LET f == MutationFields(data, arg.name)[1]
    IN  /\ Len(f.o.args.a) = 0 =>
             /\ err = NoError
             /\ ret = Obj([mutation |->
                         Obj([name |-> f.o.name, description |-> f.o.description,
                              inputs |-> Arr(<<>>)])])
        /\ FirstArgIsNullableNamed(f) =>
             /\ err = NoError
             /\ ret.o.mutation.o.name = f.o.name
             /\ ret.o.mutation.o.description = f.o.description
             /\ Len(ret.o.mutation.o.inputs.a) = Len(f.o.args.a)
             /\ \A i \in 1..Len(f.o.args.a) :
                  ret.o.mutation.o.inputs.a[i].o.name = f.o.args.a[i].o.name
             /\ ret.o.mutation.o.inputs.a[1] =
                  Obj([name |-> f.o.args.a[1].o.name,
                       type |-> f.o.args.a[1].o.type.o.name,
                       description |-> f.o.args.a[1].o.description,
                       required |-> Bool(FALSE)])

C29_Witness ==
  /\ MutationOfOne
  /\ arg.name = "ping"
  /\ Len(MutationFields(data, "ping")[1].o.args.a) = 0
  /\ err = NoError
  /\ ret.o.mutation.o.name = Str("ping")
  /\ ret.o.mutation.o.inputs = Arr(<<>>)

\* C24: a Query whose evaluation does not finish can be cancelled or timed
\* out: once its caller has given it up, the call returns.
C24_CancelledCallReturns ==
  \A c \in CallIds : (calls[c].pc = "run" /\ calls[c].cancel) ~> (calls[c].pc # "run")

\* the text t occurs in the text s
Contains(s, t) == \E i \in 1..(Len(s) - Len(t) + 1) : SubSeq(s, i, i + Len(t) - 1) = t

\* the body of the response of the last download as a client that decodes
\* Content-Encoding reads it
BodyRead ==
  IF arg.resp.encoding = "gzip" THEN gunzip(arg.resp.body).b ELSE arg.resp.body

\* C22: DownloadToWriter writes to the writer only when the status is 200,
\* and what it writes is the response body (all of it when it returns nil);
\* for another status it returns an error naming "HTTP <code>" and writes
\* nothing, and DownloadSchema leaves the output path as it was.
C22_WritesOnlyOnOK ==
  /\ (op = "DownloadToWriter") =>
       /\ written # "" => (arg.resp.net /\ arg.resp.status = StatusOK)
       /\ (arg.resp.net /\ arg.resp.status = StatusOK) =>
            /\ written = prefix(BodyRead, Len(written))
            /\ err = NoError => written = BodyRead
       /\ (arg.resp.net /\ arg.resp.status # StatusOK) =>
            /\ written = ""
            /\ err # NoError
            /\ Contains(err.msg, "HTTP " \o ToString(arg.resp.status))
  /\ (op = "DownloadSchema" /\ arg.resp.net /\ arg.resp.status # StatusOK) =>
       /\ files[arg.path] = arg.old
       /\ err # NoError
       /\ Contains(err.msg, "HTTP " \o ToString(arg.resp.status))

C22_Witness ==
  /\ op = "DownloadSchema"
  /\ arg.resp.net
  /\ arg.resp.status = 404
  /\ arg.path = "schema.json.gz"
  /\ ~files["schema.json.gz"].exists
  /\ err.msg = "failed to download schema: HTTP 404"

\* the bytes the last download has put into its file or its writer
BytesOut == IF "path" \in DOMAIN arg THEN files[arg.path].bytes ELSE written

\* C23: whenever DownloadAndCompressSchema or DownloadAndCompressToWriter
\* returns nil, the bytes it wrote are a gzip stream that decompresses to the
\* schema text the server served, compressed by the server or not.
C23_GzipOfServed ==
  (op \in {"DownloadAndCompressSchema", "DownloadAndCompressToWriter"} /\ err = NoError) =>
    /\ gunzip(BytesOut).ok
    /\ gunzip(BytesOut).b = BodyRead

\* the body of the last response is the text of a JSON object
BodyIsObject ==
  /\ Len(BodyRead) > 0
  /\ Char(BodyRead, 1) = "{"
  /\ decodeValue(BodyRead, 1).ok
  /\ decodeValue(BodyRead, 1).i = Len(BodyRead) + 1
  /\ decodeValue(BodyRead, 1).v.t = "object"

\* C30: DownloadIntrospectionSchema writes the output file only after the
\* response has status 200, its body parses as a JSON object and that object
\* has no top-level "errors" key; when it returns an error the output file
\* is as it was before the call.
C30_FileOnlyAfterValidation ==
  (op = "DownloadIntrospectionSchema") =>
    /\ (files[arg.path] # arg.old \/ err = NoError) =>
         /\ arg.resp.net /\ arg.resp.status = StatusOK
         /\ BodyIsObject
         /\ "errors" \notin DOMAIN decodeValue(BodyRead, 1).v.o
    /\ err # NoError => files[arg.path] = arg.old

\* the name of the output file ends in ".gz"
NamedGz == \E n \in 0..Len(arg.output) : arg.output = SubSeq(arg.output, 1, n) \o ".gz"

\* the last run of the command called a compressing download
Compressing == ret.called \in {"DownloadAndCompressToWriter", "DownloadAndCompressSchema"}

\* C26: the download command compresses exactly when --compress is set or an
\* output file is given whose name ends in ".gz"; to stdout only the flag
\* decides; a logged record carries auto_compressed exactly when it is the
\* record of success of a run that compresses for the suffix, without the flag.
C26_CompressDecision ==
  (op = "download") =>
    /\ Compressing <=> (arg.compress \/ (arg.output # "" /\ NamedGz))
    /\ arg.output = "" => (Compressing <=> arg.compress)
    /\ arg.output = "" <=> ret.called \in {"DownloadAndCompressToWriter", "DownloadToWriter"}
    /\ \A i \in 1..Len(ret.logs) :
         "auto_compressed" \in DOMAIN ret.logs[i].attrs <=>
           /\ ret.logs[i].msg = "Schema downloaded successfully"
           /\ ~arg.compress /\ NamedGz
    /\ (\E i \in 1..Len(ret.logs) : ret.logs[i].msg = "Schema downloaded successfully")
         <=> (arg.output # "" /\ err = NoError)

C26_Witness ==
  /\ op = "download"
  /\ ~arg.compress
  /\ arg.output = "schema.json.gz"
  /\ err = NoError
  /\ ret.called = "DownloadAndCompressSchema"
  /\ Len(ret.logs) = 2
  /\ "auto_compressed" \in DOMAIN ret.logs[2].attrs
  /\ gunzip(files["schema.json.gz"].bytes).ok
====
